---- MODULE Spec2Model ----
(***************************************************************************)
(* Weighted finite-state grammars of the zh / ja text-normalization        *)
(* pipeline (NeMo-text-processing), modelled as relations.                 *)
(*                                                                         *)
(* A string is a sequence of symbols.  ASCII characters stand for          *)
(* themselves ("1", "-", ":", "/", "+", " ").  A CJK character is written  *)
(* as one romanised symbol, because the module text is ASCII:              *)
(*   zh/ja numerals  ling 零  yi 一  er 二  san 三  si 四  wu 五  liu 六   *)
(*                   qi 七  ba 八  jiu 九  shi 十  bai 百  qian 千  yao 幺 *)
(*   date            nian 年  yue 月  ri 日  hao 号  hao_t 號              *)
(*   telephone       jia 加  gang 杠  dun 、  douhao ，                    *)
(*   kana            one symbol per kana, in capitals (I CHI イチ)         *)
(* A multi-character word (电话 = dian hua) is a sequence of such symbols. *)
(* The field names of the tagged form ("year:", "number_part:", ...) are   *)
(* one symbol each; the blank and the double quote are the symbols " " and *)
(* "\"".                                                                   *)
(*                                                                         *)
(* A transducer is an operator G(C, s): C is a set of configurations       *)
(* [pos, out, w] (next input position, output so far, path weight) and     *)
(* G(C, s) is the set of configurations reached by running G from each of  *)
(* them on input s.  Concatenation is operator composition, union is set   *)
(* union.  Weights are in units of 1/10000 (0.9 is 9000).                  *)
(***************************************************************************)
EXTENDS Integers, Sequences, FiniteSets, TLC

VARIABLES text, paths, tagged, spoken, phase, handle, calls, cache

vars == <<text, paths, tagged, spoken, phase, handle, calls, cache>>

-----------------------------------------------------------------------------
(* FST kernel: pynini / pynutil primitives                                 *)

Q == "\""
SP == " "

Start == {[pos |-> 1, out |-> <<>>, w |-> 0]}

\* whether the literal lit occurs in s at position p
Matches(s, p, lit) == /\ p + Len(lit) - 1 <= Len(s)
                      /\ \A i \in 1..Len(lit) : s[p + i - 1] = lit[i]

\* pynini.accep(lit): consume lit and copy it to the output
accep(C, s, lit) == {[pos |-> c.pos + Len(lit), out |-> c.out \o lit, w |-> c.w] :
                       c \in {d \in C : Matches(s, d.pos, lit)}}

\* pynutil.delete(lit): consume lit, emit nothing
delete(C, s, lit) == {[pos |-> c.pos + Len(lit), out |-> c.out, w |-> c.w] :
                        c \in {d \in C : Matches(s, d.pos, lit)}}

\* pynutil.insert(lit): consume nothing, emit lit
insert(C, lit) == {[pos |-> c.pos, out |-> c.out \o lit, w |-> c.w] : c \in C}

\* pynini.cross(a, b): consume a, emit b
cross(C, s, a, b) == {[pos |-> c.pos + Len(a), out |-> c.out \o b, w |-> c.w] :
                        c \in {d \in C : Matches(s, d.pos, a)}}

\* pynutil.add_weight(G, x): every path through G costs x more
add_weight(C, x) == {[pos |-> c.pos, out |-> c.out, w |-> c.w + x] : c \in C}

\* pynini.string_map / string_file: a set of <<input, output>> pairs
string_map(C, s, table) == UNION {cross(C, s, e[1], e[2]) : e \in table}

\* union of acceptors of the words of a set
accep_any(C, s, words) == UNION {accep(C, s, x) : x \in words}

\* pynini.closure(string_map(table), lo, hi)
RECURSIVE closure_map(_, _, _, _, _)
closure_map(C, s, table, lo, hi) ==
    IF hi = 0 \/ C = {} THEN C
    ELSE LET one == string_map(C, s, table)
         IN  (IF lo <= 0 THEN C ELSE {}) \cup closure_map(one, s, table, lo - 1, hi - 1)

\* the accepting paths: configurations that consumed the whole input
Accepting(C, s) == {[out |-> c.out, w |-> c.w] : c \in {d \in C : d.pos = Len(s) + 1}}

\* shortest_path: the minimum-weight paths; ties are all possible results
MinPaths(P) == {p \in P : \A q \in P : p.w <= q.w}

\* GraphFst.add_tokens: wrap a class grammar's output as  name { ... }
add_tokens(P, name) == {[out |-> <<name, SP, "{", SP>> \o p.out \o <<SP, "}">>, w |-> p.w] : p \in P}

-----------------------------------------------------------------------------
(* Numerals                                                                *)

DigitChar == <<"0", "1", "2", "3", "4", "5", "6", "7", "8", "9">>
ZhDigit == <<"ling", "yi", "er", "san", "si", "wu", "liu", "qi", "ba", "jiu">>

\* str(n): the decimal numeral of n, without leading zeros
RECURSIVE Numeral(_)
Numeral(n) == IF n < 10 THEN <<DigitChar[n + 1]>>
              ELSE Numeral(n \div 10) \o <<DigitChar[(n % 10) + 1]>>

\* f"{n:02d}"
Numeral02(n) == IF n < 10 THEN <<"0">> \o Numeral(n) ELSE Numeral(n)

\* zh cardinal reading of 0..999 (10 十, 11 十一, 20 二十, 105 一百零五,
\* 110 一百一十, 119 一百一十九)
ZhCardinal(n) ==
    LET h == n \div 100
        t == (n % 100) \div 10
        u == n % 10
    IN  IF n = 0 THEN <<"ling">>
        ELSE IF n < 10 THEN <<ZhDigit[n + 1]>>
        ELSE IF n < 20 THEN <<"shi">> \o (IF u = 0 THEN <<>> ELSE <<ZhDigit[u + 1]>>)
        ELSE IF n < 100 THEN <<ZhDigit[t + 1], "shi">> \o (IF u = 0 THEN <<>> ELSE <<ZhDigit[u + 1]>>)
        ELSE <<ZhDigit[h + 1], "bai">>
             \o (IF t = 0 /\ u = 0 THEN <<>>
                 ELSE IF t = 0 THEN <<"ling", ZhDigit[u + 1]>>
                 ELSE <<ZhDigit[t + 1], "shi">> \o (IF u = 0 THEN <<>> ELSE <<ZhDigit[u + 1]>>))

\* data/number/digit.tsv and data/number/zero.tsv (zh)
zh_digit_tsv == {<<<<DigitChar[i + 1]>>, <<ZhDigit[i + 1]>>>> : i \in 1..9}
zh_zero_tsv == {<<<<"0">>, <<"ling">>>>}

-----------------------------------------------------------------------------
(* The pipeline state.  text is the input of one normalize call; paths is  *)
(* the set of accepting paths of the class tagger composed with text;      *)
(* tagged is the path shortest_path selected; spoken is the verbalizer's   *)
(* result for it.                                                          *)

NoOutput == <<>>

\* handle is the constructed object of the specifications that model a
\* constructor or calls on one handle, calls the state of those calls; the
\* class-grammar specifications leave both at these values
NoHandle == [state |-> "none"]
NoCalls == <<>>

\* cache is the state of the .far files of the cache directory in the
\* specification that models the cached constructors; elsewhere no cache
\* directory is in use
NoCache == <<>>

\* compose(text, tagger) followed by shortest_path: a rejected input has no
\* path, otherwise any of the minimum-weight paths may be the one returned
Classified(P) ==
    /\ paths' = P
    /\ IF P = {}
       THEN phase' = "rejected" /\ tagged' = NoOutput
       ELSE phase' = "tagged" /\ \E p \in MinPaths(P) : tagged' = p.out
    /\ UNCHANGED <<text, spoken, handle, calls, cache>>

-----------------------------------------------------------------------------
(* zh DateFst (taggers/date.py)                                            *)

gong_yuan == <<"gong", "yuan">>
xi_yuan == <<"xi", "yuan">>
ji_yuan == <<"ji", "yuan">>

\* data/date/months.tsv, data/date/day.tsv: 1..12 / 1..31, with or without
\* a leading zero, to the cardinal reading
months_tsv == {<<Numeral(i), ZhCardinal(i)>> : i \in 1..12}
                \cup {<<Numeral02(i), ZhCardinal(i)>> : i \in 1..9}
day_tsv == {<<Numeral(i), ZhCardinal(i)>> : i \in 1..31}
             \cup {<<Numeral02(i), ZhCardinal(i)>> : i \in 1..9}
\* data/date/suffixes.tsv: the era words
suffixes_tsv == {<<x, x>> : x \in {gong_yuan, xi_yuan, ji_yuan,
                                   gong_yuan \o <<"qian_before">>,
                                   xi_yuan \o <<"qian_before">>,
                                   ji_yuan \o <<"qian_before">>}}

delete_sign(C, s) == delete(C, s, <<"/">>) \cup delete(C, s, <<"-">>)
                       \cup delete(C, s, <<".">>) \cup delete(C, s, <<"middot">>)

valid_day_numbers == {Numeral(i) : i \in 1..31} \cup {Numeral02(i) : i \in 1..31}
invalid_day_numbers == {Numeral(i) : i \in 32..999}
three_digit_numbers == {Numeral(i) : i \in 100..999}
valid_number_only == (valid_day_numbers \ invalid_day_numbers) \ three_digit_numbers

\* day without the range filter: any number of one or two digits
strict_day_match_unchecked(C, s) == string_map(C, s, {<<Numeral(i), ZhCardinal(i)>> : i \in 1..99})

\* valid_number_only @ day
strict_day_match(C, s) == string_map(C, s, {e \in day_tsv : e[1] \in valid_number_only})

only_year(C, s) ==
    insert(delete(closure_map(insert(C, <<"year:", SP, Q>>), s,
                              zh_digit_tsv \cup zh_zero_tsv, 2, Len(s)),
                  s, <<"nian">>), <<Q>>)

only_month(C, s) ==
    insert(delete(string_map(insert(C, <<"month:", SP, Q>>), s, months_tsv),
                  s, <<"yue">>), <<Q>>)

\* the grammar the source removed: a day number followed by 日 / 号 / 號
only_day_removed(C, s) ==
    LET d == string_map(insert(C, <<"day:", SP, Q>>), s, day_tsv)
    IN  insert(delete(d, s, <<"ri">>) \cup delete(d, s, <<"hao">>)
               \cup delete(d, s, <<"hao_t">>), <<Q>>)

graph_only_date_with_day(C, s) == only_year(C, s) \cup only_month(C, s) \cup only_day_removed(C, s)

graph_only_date(C, s) == only_year(C, s) \cup only_month(C, s)

year_month(C, s) == only_month(insert(only_year(C, s), <<SP>>), s)

graph_combination(C, s) == year_month(C, s)

year_component(C, s) ==
    insert(delete_sign(closure_map(insert(C, <<"year:", SP, Q>>), s,
                                   zh_digit_tsv \cup zh_zero_tsv, 2, 4), s), <<Q>>)

month_component(C, s) ==
    insert(delete_sign(string_map(insert(C, <<"month:", SP, Q>>), s, months_tsv), s), <<Q>>)

day_component_sign_separated(C, s) ==
    insert(strict_day_match(insert(C, <<"day:", SP, Q>>), s), <<Q>>)

graph_sign(C, s) ==
    day_component_sign_separated(
        insert(month_component(insert(year_component(C, s), <<SP>>), s), <<SP>>), s)

date_prefix == {gong_yuan, xi_yuan, gong_yuan \o <<"qian_before">>,
                xi_yuan \o <<"qian_before">>, ji_yuan, ji_yuan \o <<"qian_before">>}

prefix_component(C, s) == insert(accep_any(insert(C, <<"era:", SP, Q>>), s, date_prefix), <<Q>>)

suffix_component(C, s) == insert(string_map(insert(C, <<"era:", SP, Q>>), s, suffixes_tsv), <<Q>>)

graph_prefix(C, s) ==
    LET D == insert(prefix_component(C, s), <<SP>>)
    IN  year_month(D, s) \cup only_year(D, s)

graph_suffix(C, s) ==
    suffix_component(insert(year_month(C, s) \cup only_year(C, s), <<SP>>), s)

graph_affix(C, s) == graph_prefix(C, s) \cup graph_suffix(C, s)

graph_suffix_year(C, s) ==
    suffix_component(
        insert(insert(closure_map(insert(C, <<"year:", SP, Q>>), s,
                                  zh_digit_tsv \cup zh_zero_tsv, 1, Len(s)), <<Q>>),
               <<SP>>), s)

graph_with_era(C, s) == graph_suffix_year(C, s) \cup graph_affix(C, s)

date_graph(C, s) == graph_only_date(C, s) \cup graph_combination(C, s)
                      \cup graph_sign(C, s) \cup graph_with_era(C, s)

range_symbol == {<<"-">>, <<"~">>, <<"emdash", "emdash">>, <<"emdash">>}

range_source(C, s) ==
    LET D == insert(C, <<"range:", SP, Q>>)
    IN  insert(D \cup accep(D, s, <<"cong">>), <<Q>>)

range_goal(C, s) ==
    LET D == insert(C, <<"range:", SP, Q>>)
    IN  insert(D \cup accep(D, s, <<"dao">>) \cup accep(D, s, <<"zhi">>)
               \cup accep_any(D, s, range_symbol), <<Q>>)

graph_goal(C, s) ==
    date_graph(insert(range_goal(insert(date_graph(C, s), <<SP>>), s), <<SP>>), s)

graph_source(C, s) == graph_goal(insert(range_source(C, s), <<SP>>), s)

graph_range_final(C, s) == graph_source(C, s) \cup graph_goal(C, s)

date_final_graph(C, s) == date_graph(C, s) \cup graph_range_final(C, s)

\* DateFst.fst = add_tokens(final_graph)
DateFst(s) == add_tokens(Accepting(date_final_graph(Start, s), s), "date")

(* inputs of the date tagger *)

MaxDayDigits == 3
DayDigits == {"0", "1", "2", "3", "9"}
DaySuffixes == {"hao", "hao_t", "ri"}

RECURSIVE DigitStrings(_, _)
DigitStrings(D, n) == IF n = 0 THEN {<<>>}
                      ELSE {<<d>> \o x : d \in D, x \in DigitStrings(D, n - 1)}

DayNumbers == UNION {DigitStrings(DayDigits, n) : n \in 1..MaxDayDigits}

\* a bare number followed by 号, 號 or 日
BareDayInputs == {n \o <<x>> : n \in DayNumbers, x \in DaySuffixes}

DateInputs ==
    BareDayInputs
      \cup {n \o <<x>> : n \in DayNumbers, x \in {"nian", "yue"}}
      \cup {<<"2", "0", "0", "2", "nian", "2", "yue">>,
            <<"2", "0", "0", "2", "-", "0", "1", "-", "2", "8">>,
            <<"2", "0", "0", "2", "/", "1", "/", "3", "2">>,
            <<"2", "0", "0", "2", "/", "0", "2">>,
            <<"2", "yue", "1", "1", "ri">>,
            <<"gong", "yuan", "2", "0", "0", "2", "nian">>,
            <<"cong", "2", "0", "0", "2", "nian", "dao", "2", "0", "0", "3", "nian">>}

InitZhDate ==
    /\ text \in DateInputs
    /\ paths = {} /\ tagged = NoOutput /\ spoken = NoOutput /\ phase = "input"
    /\ handle = NoHandle /\ calls = NoCalls /\ cache = NoCache

ZhDateClassify == phase = "input" /\ Classified(DateFst(text))

NextZhDate == ZhDateClassify

SpecZhDate == InitZhDate /\ [][NextZhDate]_vars

\* C1: the zh date tagger never date-tags a bare number of 1 to 3 digits
\* followed by 号, 號 or 日: such an input has no accepting path in DateFst
\* and is rejected, so it is left to the other classes.
C1_BareDayNotDateTagged ==
    (phase # "input" /\ text \in BareDayInputs) => (paths = {} /\ phase = "rejected")

\* 119号 went through the date tagger and was rejected; 119年 is tagged
C1_Witness ==
    /\ phase = "rejected"
    /\ text = <<"1", "1", "9", "hao">>
    /\ DateFst(<<"1", "1", "9", "nian">>) # {}

-----------------------------------------------------------------------------
(* zh telephone TelephoneFst (taggers/telephone.py)                        *)
(*   dian hua 电话   re xian 热线   ke fu 客服   fu wu_serve 服务          *)
(*   zi xun 咨询   lian xi_sys 联系   yu yue_appt 预约   ding gou 订购     *)
(*   bo da 拨打   zhi_send dian 致电   hu jiao 呼叫   hao ma 号码          *)
(*   zhuan xian 专线   zuo ji_machine 座机   shou ji_machine 手机          *)
(*   xiao shou_sell 销售   tou su 投诉   bao xiu 报修   jin ji_urgent 紧急 *)
(*   ji_urgent jiu_rescue 急救   fwcolon ：   shi_is 是   wei 为           *)
(*   huo 或  he 和  yi_with ji_and 以及  yu_with 与  gen 跟  hai 还  zhe 者 *)
(*   fen ji_machine 分机                                                   *)

\* digit_to_chinese: the telephone reading of each digit
digit_to_chinese == <<"ling", "yao", "er", "san", "si", "wu", "liu", "qi", "ba", "jiu">>

DigitCross(lo, hi) == {<<<<DigitChar[i + 1]>>, <<digit_to_chinese[i + 1]>>>> : i \in lo..hi}

tel_digit(C, s) == string_map(C, s, DigitCross(0, 9))

separator_delete(C, s) ==
    cross(C, s, <<"-">>, <<"gang">>) \cup delete(C, s, <<SP>>) \cup delete(C, s, <<".">>)
      \cup delete(C, s, <<"(">>) \cup delete(C, s, <<")">>)

segment_sep(C) == insert(C, <<"dun">>)
digit_sep(C) == insert(C, <<SP>>)

\* make_continuous_digits(n): n digits read one after the other
make_continuous_digits(C, s, n) == closure_map(C, s, DigitCross(0, 9), n, n)

mobile_prefix(C, s) ==
    string_map(string_map(cross(C, s, <<"1">>, <<"yao">>), s, DigitCross(3, 9)), s, DigitCross(0, 9))

continuous_mobile_11(C, s) ==
    make_continuous_digits(
        segment_sep(make_continuous_digits(segment_sep(mobile_prefix(C, s)), s, 4)), s, 4)

\* digit digit digit_sep digit digit digit_sep digit
service_tail_7(C, s) ==
    tel_digit(digit_sep(make_continuous_digits(digit_sep(make_continuous_digits(C, s, 2)), s, 2)), s)

continuous_service_10(C, s) ==
    service_tail_7(segment_sep(cross(C, s, <<"4", "0", "0">>, <<"si", "ling", "ling">>)), s)
      \cup service_tail_7(segment_sep(cross(C, s, <<"8", "0", "0">>, <<"ba", "ling", "ling">>)), s)

continuous_service_5(C, s) ==
    tel_digit(digit_sep(tel_digit(digit_sep(
        tel_digit(cross(C, s, <<"9", "5">>, <<"jiu", "wu">>), s)), s)), s)

dian_hua == <<"dian", "hua">>
re_xian == <<"re", "xian">>

phone_prefix_keywords ==
    {dian_hua, re_xian, <<"ke", "fu">>, <<"fu", "wu_serve">>, <<"zi", "xun">>,
     <<"lian", "xi_sys">>, <<"yu", "yue_appt">>, <<"ding", "gou">>,
     <<"bo", "da">>, <<"zhi_send", "dian">>, <<"hu", "jiao">>, <<"hao", "ma">>,
     <<"zhuan", "xian">>, <<"zuo", "ji_machine">>, <<"shou", "ji_machine">>,
     <<"ke", "fu">> \o dian_hua, <<"zi", "xun">> \o re_xian, <<"fu", "wu_serve">> \o re_xian,
     <<"yu", "yue_appt">> \o dian_hua, <<"lian", "xi_sys">> \o dian_hua,
     <<"xiao", "shou_sell">> \o re_xian, <<"tou", "su">> \o dian_hua,
     <<"bao", "xiu">> \o dian_hua, <<"jin", "ji_urgent">> \o dian_hua,
     <<"ji_urgent", "jiu_rescue">> \o dian_hua, <<"bo">>}

phone_suffix_keywords == {<<"hao", "ma">>, dian_hua, re_xian, <<"zhuan", "xian">>}

prefix_connectives == {<<"fwcolon">>, <<":">>, <<"shi_is">>, <<"wei">>, <<SP>>}

RECURSIVE closure_accep(_, _, _, _, _)
\* pynini.closure(union of acceptors, lo, hi)
closure_accep(C, s, words, lo, hi) ==
    IF hi = 0 \/ C = {} THEN C
    ELSE (IF lo <= 0 THEN C ELSE {})
           \cup closure_accep(accep_any(C, s, words), s, words, lo - 1, hi - 1)

tel_context_prefix(C, s) ==
    closure_accep(accep_any(C, s, phone_prefix_keywords), s, prefix_connectives, 0, 3)

tel_context_suffix(C, s) == accep_any(C, s, phone_suffix_keywords)

country_codes(C, s) ==
    cross(C, s, <<"+", "8", "6">>, <<"jia", "ba", "liu">>)
      \cup cross(C, s, <<"+", "1">>, <<"jia", "yi">>)
      \cup cross(C, s, <<"+", "4", "4">>, <<"jia", "si", "si">>)
      \cup cross(C, s, <<"+", "8", "1">>, <<"jia", "ba", "yi">>)
      \cup cross(C, s, <<"+", "8", "2">>, <<"jia", "ba", "er">>)

area_code_3digit(C, s) ==
    string_map(string_map(cross(C, s, <<"0">>, <<"ling">>), s, DigitCross(1, 9)), s, DigitCross(0, 9))

area_code_4digit(C, s) == string_map(area_code_3digit(C, s), s, DigitCross(0, 9))

service_prefix_400_800(C, s) ==
    cross(C, s, <<"4", "0", "0">>, <<"si", "ling", "ling">>)
      \cup cross(C, s, <<"8", "0", "0">>, <<"ba", "ling", "ling">>)

\* area code, deleted hyphen, inserted separator, n digits
fixed_3(C, s, n) == make_continuous_digits(segment_sep(delete(area_code_3digit(C, s), s, <<"-">>)), s, n)
fixed_4(C, s, n) == make_continuous_digits(segment_sep(delete(area_code_4digit(C, s), s, <<"-">>)), s, n)

fixed_3_8(C, s) == fixed_3(C, s, 8)
fixed_3_7(C, s) == fixed_3(C, s, 7)
fixed_4_8(C, s) == fixed_4(C, s, 8)
fixed_4_7(C, s) == fixed_4(C, s, 7)
fixed_4_6(C, s) == fixed_4(C, s, 6)

mobile_format(C, s) ==
    make_continuous_digits(segment_sep(delete(
        make_continuous_digits(segment_sep(delete(mobile_prefix(C, s), s, <<"-">>)), s, 4),
        s, <<"-">>)), s, 4)

service_400_800_n(C, s, n) ==
    make_continuous_digits(segment_sep(delete(
        make_continuous_digits(segment_sep(delete(service_prefix_400_800(C, s), s, <<"-">>)), s, 3),
        s, <<"-">>)), s, n)

service_400_800(C, s) == service_400_800_n(C, s, 4)
service_400_800_short(C, s) == service_400_800_n(C, s, 3)

\* the reading the source writes for a short number: digits joined by blanks
RECURSIVE SpacedReading(_)
SpacedReading(d) ==
    IF Len(d) = 0 THEN <<>>
    ELSE IF Len(d) = 1 THEN <<digit_to_chinese[CHOOSE i \in 1..10 : DigitChar[i] = d[1]]>>
    ELSE <<digit_to_chinese[CHOOSE i \in 1..10 : DigitChar[i] = d[1]], SP>> \o SpacedReading(Tail(d))

EmergencyNumbers == {<<"1", "1", "0">>, <<"1", "1", "9">>, <<"1", "2", "0">>,
                     <<"1", "2", "2">>, <<"1", "1", "4">>}
ServiceNumbers == {<<"1", "0", "0", "8", "6">>, <<"1", "0", "0", "1", "0">>,
                   <<"1", "0", "0", "0", "0">>, <<"9", "5", "5", "8", "8">>}

emergency_numbers_basic(C, s) == string_map(C, s, {<<e, SpacedReading(e)>> : e \in EmergencyNumbers})
service_numbers_basic(C, s) == string_map(C, s, {<<e, SpacedReading(e)>> : e \in ServiceNumbers})

StandalonePenalty == 15000

\* the standalone branch without its weight penalty
emergency_with_context_no_penalty(C, s) ==
    emergency_numbers_basic(tel_context_prefix(C, s), s)
      \cup tel_context_suffix(emergency_numbers_basic(C, s), s)
      \cup emergency_numbers_basic(C, s)

emergency_with_context(C, s) ==
    emergency_numbers_basic(tel_context_prefix(C, s), s)
      \cup tel_context_suffix(emergency_numbers_basic(C, s), s)
      \cup add_weight(emergency_numbers_basic(C, s), StandalonePenalty)

service_with_context(C, s) ==
    service_numbers_basic(tel_context_prefix(C, s), s)
      \cup tel_context_suffix(service_numbers_basic(C, s), s)
      \cup add_weight(service_numbers_basic(C, s), StandalonePenalty)

RECURSIVE sep_then_digit(_, _, _, _)
\* pynini.closure(digit_sep + digit, lo, hi)
sep_then_digit(C, s, lo, hi) ==
    IF hi = 0 \/ C = {} THEN C
    ELSE (IF lo <= 0 THEN C ELSE {})
           \cup sep_then_digit(tel_digit(digit_sep(C), s), s, lo - 1, hi - 1)

RECURSIVE digit_then_sep(_, _, _, _)
\* pynini.closure(digit + digit_sep, lo, hi)
digit_then_sep(C, s, lo, hi) ==
    IF hi = 0 \/ C = {} THEN C
    ELSE (IF lo <= 0 THEN C ELSE {})
           \cup digit_then_sep(digit_sep(tel_digit(C, s)), s, lo - 1, hi - 1)

phone_starter(C, s) ==
    closure_map(tel_digit(cross(C, s, <<"0">>, <<"ling">>), s), s, DigitCross(0, 9), 1, 2)
      \cup string_map(cross(C, s, <<"1">>, <<"yao">>), s, DigitCross(3, 9))
      \cup cross(cross(cross(C, s, <<"4">>, <<"si">>) \cup cross(C, s, <<"8">>, <<"ba">>),
                       s, <<"0">>, <<"ling">>), s, <<"0">>, <<"ling">>)

\* separator, inserted 、, then three to five blank-separated digits
generic_segment(C, s) ==
    tel_digit(digit_then_sep(segment_sep(separator_delete(C, s)), s, 2, 4), s)

generic_phone(C, s) ==
    LET first == generic_segment(sep_then_digit(phone_starter(C, s), s, 0, 2), s)
    IN  first \cup generic_segment(first, s)

comma_sep(C) == insert(C, <<"douhao">>)

china_international(C, s) ==
    LET D == comma_sep(separator_delete(cross(C, s, <<"+", "8", "6">>, <<"jia", "ba", "liu">>), s))
    IN  mobile_format(D, s) \cup fixed_3_8(D, s) \cup fixed_3_7(D, s)
          \cup fixed_4_8(D, s) \cup fixed_4_7(D, s) \cup service_400_800(D, s)

\* a group of one of the lengths of ns, then a separator and the inserted 、
digit_group_sep(C, s, ns) ==
    segment_sep(separator_delete(UNION {make_continuous_digits(C, s, n) : n \in ns}, s))

flexible_codes ==
    {<<<<"+", "1">>, <<"jia", "yi">>>>, <<<<"+", "4", "4">>, <<"jia", "si", "si">>>>,
     <<<<"+", "8", "1">>, <<"jia", "ba", "yi">>>>, <<<<"+", "8", "2">>, <<"jia", "ba", "er">>>>,
     <<<<"+", "3", "3">>, <<"jia", "san", "san">>>>, <<<<"+", "4", "9">>, <<"jia", "si", "jiu">>>>,
     <<<<"+", "6", "1">>, <<"jia", "liu", "yi">>>>, <<<<"+", "9", "1">>, <<"jia", "jiu", "yi">>>>}
extended_codes ==
    {<<<<"+", "1">>, <<"jia", "yi">>>>, <<<<"+", "4", "4">>, <<"jia", "si", "si">>>>,
     <<<<"+", "8", "1">>, <<"jia", "ba", "yi">>>>}
fixed_codes == extended_codes \cup {<<<<"+", "8", "2">>, <<"jia", "ba", "er">>>>}

other_international_flexible(C, s) ==
    make_continuous_digits(
        digit_group_sep(
            digit_group_sep(comma_sep(separator_delete(string_map(C, s, flexible_codes), s)),
                            s, {1, 2, 3, 4}),
            s, {3, 4}),
        s, 4)

other_international_extended(C, s) ==
    LET D == digit_group_sep(comma_sep(separator_delete(string_map(C, s, extended_codes), s)),
                             s, {1, 2, 3})
    IN  make_continuous_digits(digit_group_sep(digit_group_sep(D, s, {3}), s, {3}), s, 4)
          \cup make_continuous_digits(digit_group_sep(D, s, {3}), s, 4)
          \cup make_continuous_digits(digit_group_sep(D, s, {4}), s, 4)

other_international_fixed(C, s) ==
    make_continuous_digits(
        digit_group_sep(
            digit_group_sep(comma_sep(separator_delete(string_map(C, s, fixed_codes), s)), s, {3}),
            s, {3}),
        s, 4)

other_international(C, s) ==
    add_weight(other_international_flexible(C, s), 1000)
      \cup add_weight(other_international_extended(C, s), 2000)
      \cup add_weight(other_international_fixed(C, s), 3000)

international_phone(C, s) == china_international(C, s) \cup other_international(C, s)

connector_words == {<<"huo">>, <<"he">>, <<"yi_with", "ji_and">>, <<"ji_and">>, <<"yu_with">>,
                    <<"gen">>, <<"hai", "shi_is">>, <<"huo", "zhe">>}

basic_phone_formats(C, s) ==
    continuous_mobile_11(C, s) \cup continuous_service_10(C, s) \cup continuous_service_5(C, s)
      \cup international_phone(C, s) \cup mobile_format(C, s)
      \cup fixed_3_8(C, s) \cup fixed_3_7(C, s) \cup fixed_4_8(C, s) \cup fixed_4_7(C, s)
      \cup fixed_4_6(C, s) \cup service_400_800(C, s) \cup service_400_800_short(C, s)
      \cup emergency_numbers_basic(C, s) \cup service_numbers_basic(C, s)
      \cup generic_phone(C, s)

\* optional blank, connector word, optional blank, next phone number
connected_phone(C, s) ==
    LET a == C \cup accep(C, s, <<SP>>)
        b == accep_any(a, s, connector_words)
    IN  basic_phone_formats(b \cup accep(b, s, <<SP>>), s)

RECURSIVE closure_connected(_, _, _, _)
closure_connected(C, s, lo, hi) ==
    IF hi = 0 \/ C = {} THEN C
    ELSE (IF lo <= 0 THEN C ELSE {})
           \cup closure_connected(connected_phone(C, s), s, lo - 1, hi - 1)

consecutive_phones(C, s) == closure_connected(basic_phone_formats(C, s), s, 1, 3)

\* all_phone_formats with the weight of the standard mobile format raised
all_phone_formats_mobile_heavy(C, s) ==
    add_weight(consecutive_phones(C, s), 500)
      \cup add_weight(continuous_mobile_11(C, s), 1000)
      \cup add_weight(continuous_service_10(C, s), 2000)
      \cup add_weight(continuous_service_5(C, s), 3000)
      \cup add_weight(international_phone(C, s), 5000)
      \cup add_weight(mobile_format(C, s), 17000)
      \cup add_weight(fixed_3_8(C, s) \cup fixed_3_7(C, s) \cup fixed_4_8(C, s)
                        \cup fixed_4_7(C, s) \cup fixed_4_6(C, s), 7000)
      \cup add_weight(service_400_800(C, s) \cup service_400_800_short(C, s), 8000)
      \cup add_weight(emergency_with_context(C, s) \cup service_with_context(C, s), 9000)
      \cup add_weight(generic_phone(C, s), 10000)

all_phone_formats(C, s) ==
    add_weight(consecutive_phones(C, s), 500)
      \cup add_weight(continuous_mobile_11(C, s), 1000)
      \cup add_weight(continuous_service_10(C, s), 2000)
      \cup add_weight(continuous_service_5(C, s), 3000)
      \cup add_weight(international_phone(C, s), 5000)
      \cup add_weight(mobile_format(C, s), 7000)
      \cup add_weight(fixed_3_8(C, s) \cup fixed_3_7(C, s) \cup fixed_4_8(C, s)
                        \cup fixed_4_7(C, s) \cup fixed_4_6(C, s), 7000)
      \cup add_weight(service_400_800(C, s) \cup service_400_800_short(C, s), 8000)
      \cup add_weight(emergency_with_context(C, s) \cup service_with_context(C, s), 9000)
      \cup add_weight(generic_phone(C, s), 10000)

optional_country_code(C, s) ==
    C \cup insert(country_codes(insert(C, <<"country_code:", SP, Q>>), s), <<Q, SP>>)

tel_number_part(C, s) == insert(all_phone_formats(insert(C, <<"number_part:", SP, Q>>), s), <<Q>>)

explicit_extension(C, s) ==
    C \cup insert(tel_digit(digit_then_sep(
                      insert(delete(C, s, <<"fen", "ji_machine">>), <<SP, "extension:", SP, Q>>),
                      s, 0, 2), s), <<Q>>)

complete_graph(C, s) ==
    tel_number_part(optional_country_code(C, s), s)
      \cup tel_number_part(C, s)
      \cup explicit_extension(tel_number_part(C, s), s)

\* TelephoneFst.fst = add_tokens(complete_graph)
TelephoneFst(s) == add_tokens(Accepting(complete_graph(Start, s), s), "telephone")

-----------------------------------------------------------------------------
(* zh telephone verbalizer (verbalizers/telephone.py)                      *)

\* NEMO_NOT_QUOTE: any character but the double quote
NEMO_NOT_QUOTE(c) == c # Q

RECURSIVE closure_not_quote(_, _, _)
\* pynini.closure(NEMO_NOT_QUOTE, lo): copy lo or more non-quote symbols
closure_not_quote(C, s, lo) ==
    IF C = {} THEN C
    ELSE LET one == {[pos |-> c.pos + 1, out |-> Append(c.out, s[c.pos]), w |-> c.w] :
                       c \in {d \in C : d.pos <= Len(s) /\ NEMO_NOT_QUOTE(s[d.pos])}}
         IN  (IF lo <= 0 THEN C ELSE {}) \cup closure_not_quote(one, s, lo - 1)

RECURSIVE delete_space(_, _)
\* delete_space: delete any number of blanks
delete_space(C, s) ==
    IF C = {} THEN C ELSE C \cup delete_space(delete(C, s, <<SP>>), s)

\* GraphFst.delete_tokens: strip  name { ... }  around a class verbalizer;
\* this is the head, delete_tokens_tail the tail
delete_tokens_head(C, s, name) ==
    delete_space(delete(delete_space(delete(C, s, <<name>>), s), s, <<"{">>), s)

delete_tokens_tail(C, s) == delete(delete_space(C, s), s, <<"}">>)

tel_v_optional_country_code(C, s) ==
    C \cup insert(delete_space(delete(
                      closure_not_quote(delete(C, s, <<"country_code:", SP, Q>>), s, 1),
                      s, <<Q>>), s), <<"douhao">>)

tel_v_number_part(C, s) ==
    LET v == closure_not_quote(delete(C, s, <<"number_part:", SP, Q>>), s, 1)
    IN  delete(v \cup add_weight(delete(v, s, <<SP>>), -1), s, <<Q>>)

tel_v_optional_extension(C, s) ==
    C \cup delete(closure_not_quote(
                      delete(insert(delete_space(C, s), <<"douhao", "fen", "ji_machine">>),
                             s, <<"extension:", SP, Q>>), s, 1), s, <<Q>>)

tel_v_graph(C, s) == tel_v_optional_extension(tel_v_number_part(tel_v_optional_country_code(C, s), s), s)

\* verbalizer TelephoneFst.fst = delete_tokens(graph)
TelephoneVerbalizer(s) ==
    Accepting(delete_tokens_tail(tel_v_graph(delete_tokens_head(Start, s, "telephone"), s), s), s)

\* compose(tagged, verbalizer) followed by shortest_path
Verbalized(V) ==
    /\ IF V = {}
       THEN phase' = "unverbalized" /\ spoken' = NoOutput
       ELSE phase' = "verbalized" /\ \E p \in MinPaths(V) : spoken' = p.out
    /\ UNCHANGED <<text, paths, tagged, handle, calls, cache>>

(* inputs of the telephone tagger *)

ShortNumbers == EmergencyNumbers \cup ServiceNumbers

\* how many connective characters an input puts between keyword and number
MaxConnectives == 1

\* the sequences of length n over S
Seqs(S, n) == [1..n -> S]

PrefixShortInputs ==
    {k \o e : k \in phone_prefix_keywords, e \in ShortNumbers}
      \cup {dian_hua \o c \o e : c \in UNION {Seqs({"fwcolon", "shi_is"}, n) : n \in 0..MaxConnectives},
                                 e \in ShortNumbers}

SuffixShortInputs == {e \o k : e \in ShortNumbers, k \in phone_suffix_keywords}

StandaloneShortInputs == ShortNumbers

ConnectedShortInputs ==
    {a \o c \o b : a \in EmergencyNumbers, b \in EmergencyNumbers, c \in {<<"huo">>, <<"he">>}}

\* third digit and the two four-digit groups of a mobile number
MobileGroupDigits == {"0", "1"}
MobileBodies ==
    {<<a>> \o g \o g : a \in MobileGroupDigits, g \in Seqs(MobileGroupDigits, 4)}
      \cup {<<"8", "1", "2", "3", "4", "5", "6", "7", "8">>,
            <<"9", "8", "7", "6", "5", "4", "3", "2", "1">>}

\* 11-digit mobile numbers: first digit 1, second digit 3..9
MobileNumbers == {<<"1", DigitChar[d + 1]>> \o b : d \in 3..9, b \in MobileBodies}

Hyphenated344(m) == SubSeq(m, 1, 3) \o <<"-">> \o SubSeq(m, 4, 7) \o <<"-">> \o SubSeq(m, 8, 11)

MobileInputs == MobileNumbers \cup {Hyphenated344(m) : m \in MobileNumbers}

OtherPhoneInputs ==
    {<<"+", "8", "6", "-", "1", "3", "8", "-", "1", "2", "3", "4", "-", "5", "6", "7", "8">>,
     <<"+", "8", "6", "1", "3", "8", "1", "2", "3", "4", "5", "6", "7", "8">>,
     <<"+", "1", "-", "5", "5", "5", "-", "1", "2", "3", "-", "4", "5", "6", "7">>,
     <<"+", "8", "1", "-", "3", "-", "1", "2", "3", "4", "-", "5", "6", "7", "8">>,
     <<"+", "4", "4", " ", "2", "0", " ", "7", "9", "4", "6", " ", "0", "9", "5", "8">>,
     <<"0", "1", "0", "-", "1", "2", "3", "4", "5", "6", "7", "8">>,
     <<"0", "7", "5", "5", "-", "1", "2", "3", "4", "5", "6", "7">>,
     <<"4", "0", "0", "-", "1", "2", "3", "-", "4", "5", "6", "7">>,
     <<"4", "0", "0", "1", "2", "3", "4", "5", "6", "7">>,
     <<"1", "3", "8", " ", "1", "2", "3", "4", " ", "5", "6", "7", "8">>,
     <<"1", "2", "0", "1", "2", "3", "4", "5", "6", "7", "8">>,
     <<"0", "1", "0", "-", "1", "2", "3", "4", "5", "6", "7", "8", "fen", "ji_machine", "1", "2", "3">>,
     <<"0", "1", "0", "-", "1", "2", "3", "4", "5", "6", "7", "8", "huo", "1", "1", "9">>,
     <<"1", "1", "9", "hao">>,
     <<"1", "2", "3">>}

TelInputs == PrefixShortInputs \cup SuffixShortInputs \cup StandaloneShortInputs
               \cup ConnectedShortInputs \cup MobileInputs \cup OtherPhoneInputs

InitZhTel ==
    /\ text \in TelInputs
    /\ paths = {} /\ tagged = NoOutput /\ spoken = NoOutput /\ phase = "input"
    /\ handle = NoHandle /\ calls = NoCalls /\ cache = NoCache

ZhTelClassify == phase = "input" /\ Classified(TelephoneFst(text))

ZhTelVerbalize == phase = "tagged" /\ Verbalized(TelephoneVerbalizer(tagged))

NextZhTel == ZhTelClassify \/ ZhTelVerbalize

SpecZhTel == InitZhTel /\ [][NextZhTel]_vars

\* the weight all_phone_formats gives the context-aware short numbers (0.9,
\* which is also the weight of the cardinal class in the classifier)
ShortContextWeight == 9000
ConsecutiveWeight == 500
BankServiceWeight == 3000

Weights(P) == {p.w : p \in P}

\* C2 as stated: a short number is accepted only with an adjacent keyword
\* or standalone, and every match without an adjacent keyword (standalone
\* or joined to another number by a connector word) weighs strictly more
\* than a keyword-context match and than the cardinal weight 0.9.
C2_Original_NoKeywordHeavier ==
    (phase # "input" /\ text \in StandaloneShortInputs \cup ConnectedShortInputs)
        => \A p \in paths : p.w > ShortContextWeight

\* C2 amended: with a prefix keyword (and optional connectives) or a suffix
\* keyword a short number is accepted at weight 0.9; a standalone emergency
\* number or 10086 / 10010 / 10000 is accepted only at 0.9 + 1.5 = 2.4, above
\* the keyword-context weight; 95588 standalone is also matched by the 95xxx
\* service format at 0.3; and short numbers joined by a connector word are
\* accepted as consecutive phones at 0.05.
C2_ShortNumberWeights ==
    phase # "input" =>
        /\ text \in PrefixShortInputs \cup SuffixShortInputs
              => Weights(paths) = {ShortContextWeight}
        /\ text \in StandaloneShortInputs \ {<<"9", "5", "5", "8", "8">>}
              => Weights(paths) = {ShortContextWeight + StandalonePenalty}
        /\ text = <<"9", "5", "5", "8", "8">>
              => Weights(paths) = {BankServiceWeight, ShortContextWeight + StandalonePenalty}
        /\ text \in ConnectedShortInputs
              => Weights(paths) = {ConsecutiveWeight}

\* standalone 119 was tagged by the telephone grammar at weight 2.4
C2_Witness ==
    /\ phase = "tagged"
    /\ text = <<"1", "1", "9">>
    /\ Weights(paths) = {ShortContextWeight + StandalonePenalty}
    /\ Weights(TelephoneFst(<<"bo", "da", "1", "1", "9">>)) = {ShortContextWeight}

\* the telephone reading of a digit string, digit by digit, nothing between
RECURSIVE CompactReading(_)
CompactReading(d) ==
    IF Len(d) = 0 THEN <<>>
    ELSE <<digit_to_chinese[CHOOSE i \in 1..10 : DigitChar[i] = d[1]]>> \o CompactReading(Tail(d))

\* C3: for every phone-prefix keyword K and emergency number E, tagger then
\* verbalizer map K+E to K followed by the three telephone digit readings of
\* E with nothing between them (no space, no separator).
C3_PrefixEmergencySpoken ==
    \A k \in phone_prefix_keywords, e \in EmergencyNumbers :
        (text = k \o e /\ phase \in {"verbalized", "unverbalized"})
            => spoken = k \o CompactReading(e)

\* the number_part value of a mobile number: groups of 3, 4 and 4 digits
\* read one by one and joined by 、
GroupReading(m) ==
    CompactReading(SubSeq(m, 1, 3)) \o <<"dun">> \o CompactReading(SubSeq(m, 4, 7))
      \o <<"dun">> \o CompactReading(SubSeq(m, 8, 11))

NumberPartOnly(v) == <<"telephone", SP, "{", SP, "number_part:", SP, Q>> \o v \o <<Q, SP, "}">>

DigitsOf(s) == SelectSeq(s, LAMBDA c : c # "-")

\* C4: for every 11-digit mobile number (first digit 1, second 3..9) the
\* contiguous form and the 3-4-4 hyphenated form are both tagged, and the
\* minimum-weight number_part of both is the same: the digits read one by
\* one in groups of 3, 4 and 4 joined by 、.
C4_MobileFormsAgree ==
    (phase # "input" /\ text \in MobileInputs)
        => /\ phase # "rejected"
           /\ \A p \in MinPaths(paths) : p.out = NumberPartOnly(GroupReading(DigitsOf(text)))
           /\ phase = "tagged" => tagged = NumberPartOnly(GroupReading(DigitsOf(text)))

\* 138-1234-5678 was tagged with the grouped reading although the generic
\* format offers another reading at a higher weight
C4_Witness ==
    /\ phase = "tagged"
    /\ text = <<"1", "3", "8", "-", "1", "2", "3", "4", "-", "5", "6", "7", "8">>
    /\ tagged = NumberPartOnly(<<"yao", "san", "ba", "dun", "yao", "er", "san", "si", "dun",
                                 "wu", "liu", "qi", "ba">>)
    /\ {tagged} = {p.out : p \in MinPaths(TelephoneFst(<<"1", "3", "8", "1", "2", "3", "4", "5", "6", "7", "8">>))}
    /\ Cardinality(paths) = 2

-----------------------------------------------------------------------------
(* zh FractionFst (taggers/fraction.py)                                    *)
(*   fen zhi_of 分之   you 又   fu_neg 负   fu_neg_t 負   dian_point 点    *)
(*   bi 比  li 例  lv 率  zhi_value 值  zhong 重  zhan 占  pei 配  bei 倍  *)
(*   shu 数  de 得  ji_accum 积  chang 长  kuan 宽  gao 高  dui 对         *)
(*   jiao_compare 较  sai 赛   wan 万  yi_e 亿  (_t traditional, _f 拾佰仟) *)

IsDigit(c) == \E i \in 1..10 : DigitChar[i] = c

DigitValue(c) == (CHOOSE i \in 1..10 : DigitChar[i] = c) - 1

RECURSIVE NumeralValue(_)
NumeralValue(d) == IF Len(d) = 0 THEN 0
                   ELSE 10 * NumeralValue(SubSeq(d, 1, Len(d) - 1)) + DigitValue(d[Len(d)])

\* whether s[p..p+k-1] is str(i) for some i in lo..hi
IsNumeralIn(s, p, k, lo, hi) ==
    /\ p + k - 1 <= Len(s)
    /\ \A i \in p..(p + k - 1) : IsDigit(s[i])
    /\ (k > 1 => s[p] # "0")
    /\ NumeralValue(SubSeq(s, p, p + k - 1)) \in lo..hi

\* union(str(i) for i in lo..hi) @ cardinal.just_cardinals, for numbers of
\* up to three digits: consume the numeral, emit its cardinal reading
cardinal_span(C, s, lo, hi) ==
    UNION {{[pos |-> c.pos + k, out |-> c.out \o ZhCardinal(NumeralValue(SubSeq(s, c.pos, c.pos + k - 1))),
             w |-> c.w] : c \in {d \in C : IsNumeralIn(s, d.pos, k, lo, hi)}} : k \in 1..3}

\* cardinal.just_cardinals (zh), on the numerals 0..999
graph_cardinals(C, s) == cardinal_span(C, s, 0, 999)

slash(C, s) == delete(C, s, <<"/">>)
colon(C, s) == delete(C, s, <<":">>)
morpheme(C, s) == delete(C, s, <<"fen", "zhi_of">>)

fraction_suffix ==
    {<<"bai">>, <<"qian">>, <<"wan">>, <<"shi", "wan">>, <<"bai", "wan">>, <<"qian", "wan">>,
     <<"yi_e">>, <<"shi", "yi_e">>, <<"bai", "yi_e">>, <<"qian", "yi_e">>,
     <<"wan_t">>, <<"shi", "wan_t">>, <<"bai", "wan_t">>, <<"qian", "wan_t">>,
     <<"yi_e_t">>, <<"shi", "yi_e_t">>, <<"bai", "yi_e_t">>, <<"qian", "yi_e_t">>,
     <<"shi_f", "wan_t">>, <<"bai_f", "wan_t">>, <<"qian_f", "wan_t">>,
     <<"shi_f", "yi_e_t">>, <<"bai_f", "yi_e_t">>, <<"qian_f", "yi_e_t">>,
     <<"shi_f", "wan">>, <<"bai_f", "wan">>, <<"qian_f", "wan">>,
     <<"qian_f", "yi_e">>, <<"bai_f", "yi_e">>}

ratio_context_keywords ==
    {<<"bi", "li">>, <<"bi", "lv">>, <<"bi", "zhi_value">>, <<"bi", "zhong">>, <<"bi">>,
     <<"zhan", "bi">>, <<"pei", "bi">>, <<"bei", "lv">>,
     <<"fen", "shu">>, <<"fen", "zhi_value">>, <<"fen", "bi">>, <<"de", "fen">>,
     <<"bi", "fen">>, <<"ji_accum", "fen">>,
     <<"chang", "kuan">>, <<"chang", "gao">>, <<"kuan", "gao">>, <<"dui", "bi">>,
     <<"bi", "jiao_compare">>, <<"bi", "sai">>}

RECURSIVE closure_any_char(_, _, _, _)
\* pynini.closure(NEMO_CHAR, lo, hi): copy lo..hi arbitrary characters
closure_any_char(C, s, lo, hi) ==
    IF hi = 0 \/ C = {} THEN C
    ELSE LET one == {[pos |-> c.pos + 1, out |-> Append(c.out, s[c.pos]), w |-> c.w] :
                       c \in {d \in C : d.pos <= Len(s)}}
         IN  (IF lo <= 0 THEN C ELSE {}) \cup closure_any_char(one, s, lo - 1, hi - 1)

\* keyword, then up to three of  ： : 是 为  or any character
frac_context_prefix(C, s) == closure_any_char(accep_any(C, s, ratio_context_keywords), s, 0, 3)

frac_context_suffix(C, s) == accep_any(C, s, ratio_context_keywords)

integer_component(C, s) == insert(graph_cardinals(insert(C, <<"integer_part:", SP, Q>>), s), <<Q>>)
denominator_component(C, s) == insert(graph_cardinals(insert(C, <<"denominator:", SP, Q>>), s), <<Q>>)
numerator_component(C, s) == insert(graph_cardinals(insert(C, <<"numerator:", SP, Q>>), s), <<Q>>)

\* numerator, slash, blank, denominator
numerator_slash_denominator(C, s) ==
    denominator_component(insert(slash(numerator_component(C, s), s), <<SP>>), s)

graph_with_integer(C, s) ==
    numerator_slash_denominator(
        insert(C \cup delete(integer_component(C, s), s, <<"you">>), <<SP>>), s)

graph_only_slash(C, s) == numerator_slash_denominator(C, s)

\* invalid_hour @ graph_cardinals and invalid_minute @ graph_cardinals
out_of_time_first_from_24(C, s) == cardinal_span(C, s, 24, 999)
out_of_time_first(C, s) == cardinal_span(C, s, 25, 999)
out_of_time_second(C, s) == cardinal_span(C, s, 60, 999)
any_cardinal(C, s) == cardinal_span(C, s, 0, 999)

ratio_first_component(C, s) == insert(any_cardinal(insert(C, <<"ratio_first:", SP, Q>>), s), <<Q>>)
ratio_second_component(C, s) == insert(any_cardinal(insert(C, <<"ratio_second:", SP, Q>>), s), <<Q>>)
ratio_first_out(C, s) == insert(out_of_time_first(insert(C, <<"ratio_first:", SP, Q>>), s), <<Q>>)
ratio_second_out(C, s) == insert(out_of_time_second(insert(C, <<"ratio_second:", SP, Q>>), s), <<Q>>)

graph_ratio_basic(C, s) ==
    ratio_second_component(insert(colon(ratio_first_component(C, s), s), <<SP>>), s)

graph_ratio_out_of_range(C, s) ==
    ratio_second_component(insert(colon(ratio_first_out(C, s), s), <<SP>>), s)
      \cup ratio_second_out(insert(colon(ratio_first_component(C, s), s), <<SP>>), s)

graph_ratio_with_context(C, s) ==
    LET r == graph_ratio_basic(
                 insert(frac_context_prefix(insert(C, <<"context_prefix:", SP, Q>>), s), <<Q, SP>>), s)
    IN  r \cup insert(frac_context_suffix(insert(r, <<SP, "context_suffix:", SP, Q>>), s), <<Q>>)

graph_ratio_colon(C, s) ==
    add_weight(graph_ratio_with_context(C, s), 1000)
      \cup add_weight(graph_ratio_out_of_range(C, s), 2000)

graph_morpheme(C, s) ==
    LET m(D) == numerator_component(insert(morpheme(denominator_component(D, s), s), <<SP>>), s)
    IN  m(C) \cup m(insert(delete(integer_component(C, s), s, <<"you">>), <<SP>>))

graph_with_suffix(C, s) ==
    numerator_component(
        insert(morpheme(C \cup insert(accep_any(insert(C, <<"denominator:", SP, Q>>), s, fraction_suffix),
                                      <<Q>>), s), <<SP>>), s)

percentage(C, s) == delete(C, s, <<"%">>)

denominator_hundred == <<SP, "denominator:", SP, Q, "bai", Q>>

\* graph_cardinals + delete('.') + insert('点') + closure(digit | zero, 1)
decimal_group(C, s) ==
    closure_map(insert(delete(graph_cardinals(C, s), s, <<".">>), <<"dian_point">>), s,
                zh_digit_tsv \cup zh_zero_tsv, 1, Len(s))

RECURSIVE closure_decimal_group(_, _, _)
closure_decimal_group(C, s, n) ==
    IF n = 0 \/ C = {} THEN C ELSE C \cup closure_decimal_group(decimal_group(C, s), s, n - 1)

graph_decimal(C, s) ==
    insert(closure_decimal_group(insert(C, <<"integer_part:", SP, Q>>), s, Len(s)), <<Q>>)

RECURSIVE closure_decimal_percentage(_, _, _)
\* pynini.closure(graph_decimal + percentage + insert(denominator), 1)
closure_decimal_percentage(C, s, n) ==
    IF n = 0 \/ C = {} THEN {}
    ELSE LET one == insert(percentage(graph_decimal(C, s), s), denominator_hundred)
         IN  one \cup closure_decimal_percentage(one, s, n - 1)

graph_decimal_percentage(C, s) == closure_decimal_percentage(C, s, Len(s))

RECURSIVE closure_integer_percentage(_, _, _)
\* pynini.closure(numerator_component + percentage + insert(denominator), 1)
closure_integer_percentage(C, s, n) ==
    IF n = 0 \/ C = {} THEN {}
    ELSE LET one == insert(percentage(numerator_component(C, s), s), denominator_hundred)
         IN  one \cup closure_integer_percentage(one, s, n - 1)

graph_integer_percentage(C, s) == closure_integer_percentage(C, s, Len(s))

graph_hundred(C, s) ==
    insert(delete(C, s, <<"1", "0", "0", "%">>),
           <<"numerator:", SP, Q, "bai", Q, SP, "denominator:", SP, Q, "bai", Q>>)

RECURSIVE closure_minus(_, _, _)
\* pynini.closure(insert("negative: ") + cross("-", "\"负\""))
closure_minus(C, s, n) ==
    IF n = 0 \/ C = {} THEN C
    ELSE C \cup closure_minus(cross(insert(C, <<"negative:", SP>>), s, <<"-">>, <<Q, "fu_neg", Q>>), s, n - 1)

graph_optional_sign(C, s) ==
    closure_minus(C, s, Len(s))
      \cup insert(accep(insert(C, <<"negative:", SP, Q>>), s, <<"fu_neg">>)
                    \cup cross(insert(C, <<"negative:", SP, Q>>), s, <<"fu_neg_t">>, <<"fu_neg">>), <<Q>>)

fraction_graph(C, s) ==
    graph_with_integer(C, s) \cup graph_only_slash(C, s) \cup graph_ratio_colon(C, s)
      \cup graph_morpheme(C, s) \cup graph_with_suffix(C, s)
      \cup graph_decimal_percentage(C, s) \cup graph_integer_percentage(C, s)
      \cup graph_hundred(C, s)

graph_with_sign(C, s) == fraction_graph(insert(graph_optional_sign(C, s), <<SP>>), s)

fraction_final_graph(C, s) == fraction_graph(C, s) \cup add_weight(graph_with_sign(C, s), -30000)

\* FractionFst.fst = add_tokens(final_graph)
FractionFst(s) == add_tokens(Accepting(fraction_final_graph(Start, s), s), "fraction")

(* zh fraction verbalizer (verbalizers/fraction.py) *)

\* delete("<field>:") + delete_space + delete("\"") + closure(NEMO_NOT_QUOTE) + delete("\"")
quoted_field(C, s, field) ==
    delete(closure_not_quote(delete(delete_space(delete(C, s, <<field>>), s), s, <<Q>>), s, 0), s, <<Q>>)

frac_v_integer_part(C, s) ==
    delete(insert(closure_not_quote(delete(delete_space(delete(C, s, <<"integer_part:">>), s), s, <<Q>>),
                                    s, 0), <<"you">>), s, <<Q>>)

frac_v_denominator_part(C, s) == quoted_field(C, s, "denominator:")

frac_v_numerator_part(C, s) == quoted_field(C, s, "numerator:")

frac_v_sign_part(C, s) == quoted_field(C, s, "positive:") \cup quoted_field(C, s, "negative:")

frac_v_ratio_first_part(C, s) == quoted_field(C, s, "ratio_first:")

frac_v_ratio_second_part(C, s) == quoted_field(C, s, "ratio_second:")

frac_v_context_prefix(C, s) ==
    delete(closure_not_quote(delete(C, s, <<"context_prefix:", SP, Q>>), s, 0), s, <<Q>>)

frac_v_context_suffix(C, s) ==
    delete(closure_not_quote(delete(C, s, <<"context_suffix:", SP, Q>>), s, 0), s, <<Q>>)

frac_v_graph_no_integer(C, s) ==
    frac_v_numerator_part(insert(delete_space(frac_v_denominator_part(C, s), s), <<"fen", "zhi_of">>), s)

frac_v_graph_with_integer(C, s) ==
    frac_v_graph_no_integer(delete_space(frac_v_integer_part(C, s), s), s)

frac_v_graph_ratio(C, s) ==
    LET r == frac_v_ratio_second_part(
                 insert(delete_space(frac_v_ratio_first_part(
                            C \cup delete_space(frac_v_context_prefix(C, s), s), s), s), <<"bi">>), s)
    IN  r \cup frac_v_context_suffix(delete_space(r, s), s)

frac_v_graph(C, s) ==
    frac_v_graph_with_integer(C, s) \cup frac_v_graph_no_integer(C, s) \cup frac_v_graph_ratio(C, s)

frac_v_graph_with_decimal(C, s) ==
    delete(closure_not_quote(
               delete(insert(delete_space(frac_v_denominator_part(C, s), s), <<"fen", "zhi_of">>),
                      s, <<"integer_part:", SP, Q>>), s, 0), s, <<Q>>)

frac_v_graph_with_sign(C, s) ==
    LET g == delete_space(frac_v_sign_part(C, s), s)
    IN  frac_v_graph(g, s) \cup frac_v_graph_with_decimal(g, s)

frac_v_graph_ratio_with_sign(C, s) == frac_v_graph_ratio(delete_space(frac_v_sign_part(C, s), s), s)

frac_v_final_graph(C, s) ==
    frac_v_graph_with_sign(C, s) \cup frac_v_graph(C, s) \cup frac_v_graph_with_decimal(C, s)
      \cup frac_v_graph_ratio_with_sign(C, s)

\* verbalizer FractionFst.fst = delete_tokens(final_graph)
FractionVerbalizer(s) ==
    Accepting(delete_tokens_tail(frac_v_final_graph(delete_tokens_head(Start, s, "fraction"), s), s), s)

(* inputs of the fraction tagger *)

\* slash fractions N/D are drawn with N and D in 1..MaxFrac
MaxFrac == 6

SlashText(n, d) == Numeral(n) \o <<"/">> \o Numeral(d)

SlashInputs == {SlashText(n, d) : n \in 1..MaxFrac, d \in 1..MaxFrac}

\* no keyword, or one of the ratio context keywords 比 比例 比分
RatioPrefixes == {<<>>, <<"bi">>, <<"bi", "li">>, <<"bi", "fen">>}

\* values on both sides of the hour limit 24 and of the minute limit 59
RatioFirsts == {0, 1, 12, 24, 25, 100, 999, 1000}
RatioSeconds == {0, 2, 30, 59, 60, 999}

RatioText(p, a, b) == p \o Numeral(a) \o <<":">> \o Numeral(b)

RatioInputs == {RatioText(p, a, b) : p \in RatioPrefixes, a \in RatioFirsts, b \in RatioSeconds}

OtherFractionInputs ==
    {<<"5", "you", "1", "/", "3">>, <<"3", "fen", "zhi_of", "1">>, <<"5", "you", "3", "fen", "zhi_of", "1">>,
     <<"wan", "fen", "zhi_of", "1">>, <<"fen", "zhi_of", "1">>, <<"5", "%">>, <<"1", "0", "0", "%">>,
     <<"5", ".", "6", "%">>, <<"-", "1", "/", "2">>, <<"fu_neg", "1", "/", "2">>,
     <<"fu_neg_t", "3", "fen", "zhi_of", "1">>, <<"-", "3", "0", ":", "7", "5">>,
     <<"bi", "fen", "3", ":", "2", "bi", "sai">>, <<"bi", "1", "2", ":", "3", "0">>,
     <<"0", "5", ":", "3", "0">>, <<"1", "/">>, <<"bi">>}

FractionInputs == SlashInputs \cup RatioInputs \cup OtherFractionInputs

InitZhFraction ==
    /\ text \in FractionInputs
    /\ paths = {} /\ tagged = NoOutput /\ spoken = NoOutput /\ phase = "input"
    /\ handle = NoHandle /\ calls = NoCalls /\ cache = NoCache

ZhFractionClassify == phase = "input" /\ Classified(FractionFst(text))

ZhFractionVerbalize == phase = "tagged" /\ Verbalized(FractionVerbalizer(tagged))

NextZhFraction == ZhFractionClassify \/ ZhFractionVerbalize

SpecZhFraction == InitZhFraction /\ [][NextZhFraction]_vars

\* C6: once the tagged string of a slash fraction N/D has been composed with
\* the fraction verbalizer, the spoken form is cardinal(D) 分之 cardinal(N)
C6_SlashFractionSpoken ==
    \A n \in 1..MaxFrac, d \in 1..MaxFrac :
        (text = SlashText(n, d) /\ phase \in {"verbalized", "unverbalized"})
            => spoken = ZhCardinal(d) \o <<"fen", "zhi_of">> \o ZhCardinal(n)

IsRatioTagging(out) == \E i \in 1..Len(out) : out[i] = "ratio_first:"

-----------------------------------------------------------------------------
(* ja AddressNumberFst (ja/taggers/address_number.py)                      *)
(* A transducer on one digit segment is modelled as the function from the   *)
(* segment to the set of its outputs.  Kanji digits share the symbols of    *)
(* ZhDigit (yi 一 .. jiu 九, ling 零, shi 十, bai 百, qian 千); no の;      *)
(* katakana are written one symbol per kana in capitals: I CHI イチ,        *)
(* NI LONG ニー, SA N サン, YO N ヨン, GO ゴ, RO KU ロク, NA NA ナナ,       *)
(* HA CHI ハチ, KI yu LONG キュー, MA RU マル, ZE RO ゼロ; emdash —;        *)
(* yuubin_mark 〒; you_k bin_k ban_k gou_k 郵便番号; colon_wide ：          *)

ties_map_kanji_fb_static ==
    [c \in {DigitChar[i] : i \in 1..10} |->
        LET i == DigitValue(c)
        IN  IF i = 0 THEN <<>> ELSE IF i = 1 THEN <<"shi">> ELSE <<ZhDigit[i + 1], "shi">>]

digit_map_kanji_fb_static == [c \in {DigitChar[i] : i \in 1..10} |-> <<ZhDigit[DigitValue(c) + 1]>>]

IsDigits(d) == \A i \in 1..Len(d) : IsDigit(d[i])

graph_digit_file(d) == IF Len(d) = 1 /\ IsDigits(d) THEN {digit_map_kanji_fb_static[d[1]]} ELSE {}

no_zero_digit_accepter(c) == IsDigit(c) /\ c # "0"

\* no_zero_digit_accepter @ graph_digit_file
kanji_1_to_9(d) == IF Len(d) = 1 /\ no_zero_digit_accepter(d[1]) THEN graph_digit_file(d) ELSE {}

\* difference(NEMO_DIGIT, union("0", "1")) @ graph_digit_file
kanji_prefix_for_hyaku_sen(d) == IF Len(d) = 1 /\ d[1] \notin {"0", "1"} THEN graph_digit_file(d) ELSE {}

default_style_digit_map ==
    [c \in {DigitChar[i] : i \in 2..10} |->
        <<<<"I", "CHI">>, <<"NI", "LONG">>, <<"SA", "N">>, <<"YO", "N">>, <<"GO">>, <<"RO", "KU">>,
          <<"NA", "NA">>, <<"HA", "CHI">>, <<"KI", "yu", "LONG">>>>[DigitValue(c)]]

RECURSIVE default_style_digit_sequence_reader(_)
\* closure(union(digit rules, cross("0", "ゼロ")), 1)
default_style_digit_sequence_reader(d) ==
    IF Len(d) = 0 \/ ~IsDigits(d) THEN {}
    ELSE LET h == IF d[1] = "0" THEN <<"ZE", "RO">> ELSE default_style_digit_map[d[1]]
         IN  IF Len(d) = 1 THEN {h} ELSE {h \o t : t \in default_style_digit_sequence_reader(Tail(d))}

RECURSIVE address_style_digit_sequence_reader(_)
\* closure(union(digit rules, cross("0", "マル")), 1)
address_style_digit_sequence_reader(d) ==
    IF Len(d) = 0 \/ ~IsDigits(d) THEN {}
    ELSE LET h == IF d[1] = "0" THEN <<"MA", "RU">> ELSE default_style_digit_map[d[1]]
         IN  IF Len(d) = 1 THEN {h} ELSE {h \o t : t \in address_style_digit_sequence_reader(Tail(d))}

kanji_style_multiple_zeros(d) ==
    IF d = <<"0", "0", "0">> THEN {<<"ling", "ling", "ling">>}
    ELSE IF d = <<"0", "0">> THEN {<<"ling", "ling">>}
    ELSE IF d = <<"0">> THEN {<<"ling">>} ELSE {}

rule_10(d) == IF d = <<"1", "0">> THEN {<<"shi">>} ELSE {}

rule_11_to_19(d) ==
    IF Len(d) = 2 /\ d[1] = "1" THEN {<<"shi">> \o k : k \in kanji_1_to_9(<<d[2]>>)} ELSE {}

rule_20_to_90_exact(d) ==
    IF Len(d) = 2 /\ d[1] \in {DigitChar[i] : i \in 3..10} /\ d[2] = "0"
    THEN {ties_map_kanji_fb_static[d[1]]} ELSE {}

rule_21_to_99_compound(d) ==
    IF Len(d) = 2 /\ d[1] \in {DigitChar[i] : i \in 3..10}
    THEN {ties_map_kanji_fb_static[d[1]] \o k : k \in kanji_1_to_9(<<d[2]>>)} ELSE {}

graph_0_99(d) ==
    graph_digit_file(d) \cup rule_10(d) \cup rule_11_to_19(d) \cup rule_20_to_90_exact(d)
      \cup rule_21_to_99_compound(d)

\* cross("1", "百") | (kanji_prefix_for_hyaku_sen + insert("百")), and the same with 千
unit_prefix(c, unit) ==
    (IF c = "1" THEN {<<unit>>} ELSE {}) \cup {k \o <<unit>> : k \in kanji_prefix_for_hyaku_sen(<<c>>)}

rule_X00(d) ==
    IF Len(d) = 3 /\ SubSeq(d, 2, 3) = <<"0", "0">> THEN unit_prefix(d[1], "bai") ELSE {}

\* difference(NEMO_DIGIT**2, "00") @ graph_0_99
yy_part_not_00_consumer(d) ==
    IF Len(d) = 2 /\ IsDigits(d) /\ d # <<"0", "0">> THEN graph_0_99(d) ELSE {}

rule_XYY_general(d) ==
    IF Len(d) = 3
    THEN {h \o y : h \in unit_prefix(d[1], "bai"), y \in yy_part_not_00_consumer(SubSeq(d, 2, 3))}
    ELSE {}

graph_100_to_999_raw(d) == rule_X00(d) \cup rule_XYY_general(d)

graph_100_to_999(d) == IF Len(d) = 3 /\ IsDigits(d) THEN graph_100_to_999_raw(d) ELSE {}

rule_X000(d) ==
    IF Len(d) = 4 /\ SubSeq(d, 2, 4) = <<"0", "0", "0">> THEN unit_prefix(d[1], "qian") ELSE {}

graph_0_to_999_for_thousands_yyy_part(d) == graph_100_to_999_raw(d) \cup graph_0_99(d)

yyy_part_not_000_consumer(d) ==
    IF Len(d) = 3 /\ IsDigits(d) /\ d # <<"0", "0", "0">>
    THEN graph_0_to_999_for_thousands_yyy_part(d) ELSE {}

rule_XYYY_general(d) ==
    IF Len(d) = 4
    THEN {h \o y : h \in unit_prefix(d[1], "qian"), y \in yyy_part_not_000_consumer(SubSeq(d, 2, 4))}
    ELSE {}

graph_1000_to_9999_raw(d) == rule_X000(d) \cup rule_XYYY_general(d)

graph_1000_to_9999(d) == IF Len(d) = 4 /\ IsDigits(d) THEN graph_1000_to_9999_raw(d) ELSE {}

leading_zeros_with_kanji_suffix(d) ==
    (IF Len(d) = 3 /\ SubSeq(d, 1, 2) = <<"0", "0">>
     THEN {<<"ling", "ling">> \o k : k \in kanji_1_to_9(<<d[3]>>)} ELSE {})
      \cup (IF Len(d) = 2 /\ d[1] = "0" THEN {<<"ling">> \o k : k \in kanji_1_to_9(<<d[2]>>)} ELSE {})

\* process_kanji_number_func(): final_kanji_graph
kanji_style_number(d) ==
    graph_1000_to_9999(d) \cup graph_100_to_999(d) \cup graph_0_99(d)
      \cup leading_zeros_with_kanji_suffix(d) \cup kanji_style_multiple_zeros(d)

\* non_zero_start_digit + closure(NEMO_DIGIT, 0)
non_zero_start(d) == Len(d) >= 1 /\ IsDigits(d) /\ d[1] # "0"

non_zero_kanji_number_any_start(d) == kanji_style_number(d)
non_zero_kanji_number(d) == IF non_zero_start(d) THEN kanji_style_number(d) ELSE {}

digits_no_zero_seq(d) == Len(d) >= 1 /\ \A i \in 1..Len(d) : no_zero_digit_accepter(d[i])

digits_with_zero_seq(d) == non_zero_start(d) /\ ~digits_no_zero_seq(d)

final_segment_no_zero(d) == IF digits_no_zero_seq(d) THEN kanji_style_number(d) ELSE {}

final_segment_with_zero_default_reader(d) ==
    IF digits_with_zero_seq(d) THEN default_style_digit_sequence_reader(d) ELSE {}
final_segment_with_zero(d) ==
    IF digits_with_zero_seq(d) THEN address_style_digit_sequence_reader(d) ELSE {}

final_segment_logic(d) == final_segment_no_zero(d) \cup final_segment_with_zero(d)

\* the lengths k for which s[p..p+k-1] is a run of digits
Spans(s, p) == {k \in 1..(Len(s) - p + 1) : IsDigits(SubSeq(s, p, p + k - 1))}

\* cross("-", "の") | cross("—", "の")
address_separator(C, s) == cross(C, s, <<"-">>, <<"no">>) \cup cross(C, s, <<"emdash">>, <<"no">>)

\* one non-final segment: non_zero_kanji_number
seg_non_zero_kanji(C, s) ==
    UNION {{[pos |-> x[1].pos + x[2], out |-> x[1].out \o o, w |-> x[1].w] :
              o \in non_zero_kanji_number(SubSeq(s, x[1].pos, x[1].pos + x[2] - 1))} :
           x \in {y \in C \X (1..Len(s)) : y[2] \in Spans(s, y[1].pos)}}

\* the final segment: final_segment_logic
seg_final(C, s) ==
    UNION {{[pos |-> x[1].pos + x[2], out |-> x[1].out \o o, w |-> x[1].w] :
              o \in final_segment_logic(SubSeq(s, x[1].pos, x[1].pos + x[2] - 1))} :
           x \in {y \in C \X (1..Len(s)) : y[2] \in Spans(s, y[1].pos)}}

pattern3(C, s) == seg_final(address_separator(seg_non_zero_kanji(C, s), s), s)

pattern2(C, s) == pattern3(address_separator(seg_non_zero_kanji(C, s), s), s)

pattern1(C, s) == pattern2(address_separator(seg_non_zero_kanji(C, s), s), s)

\* (NEMO_DIGIT ** n) @ default_style_digit_sequence_reader
postal_part(C, s, n) ==
    UNION {{[pos |-> c.pos + n, out |-> c.out \o o, w |-> c.w] :
              o \in default_style_digit_sequence_reader(SubSeq(s, c.pos, c.pos + n - 1))} :
           c \in {d \in C : n \in Spans(s, d.pos)}}

you_bin_ban_gou == <<"you_k", "bin_k", "ban_k", "gou_k">>

pattern4_postal_code(C, s) ==
    LET mark == cross(C, s, <<"yuubin_mark">>, you_bin_ban_gou) \cup accep(C, s, you_bin_ban_gou)
        sp1 == mark \cup delete(mark, s, <<SP>>)
        col == sp1 \cup delete(sp1, s, <<":">>) \cup delete(sp1, s, <<"colon_wide">>)
        sp2 == col \cup delete(col, s, <<SP>>)
    IN  postal_part(address_separator(postal_part(sp2, s, 3), s), s, 4)

address_number_part(C, s) ==
    pattern4_postal_code(C, s) \cup pattern1(C, s) \cup pattern2(C, s) \cup pattern3(C, s)
      \cup seg_final(C, s)

address_final_graph(C, s) == insert(address_number_part(insert(C, <<"number_part:", SP, Q>>), s), <<Q>>)

\* AddressNumberFst.fst = add_tokens(final_graph)
AddressNumberFst(s) == add_tokens(Accepting(address_final_graph(Start, s), s), "address_number")

(* inputs of the address tagger *)

\* addresses are drawn with 1..MaxSegments segments
MaxSegments == 4

AddrSegments == {<<"1">>, <<"2", "1">>, <<"8", "0", "9">>, <<"1", "0">>, <<"1", "0", "5">>, <<"0", "5">>}

RECURSIVE JoinSegs(_)
JoinSegs(g) == IF Len(g) = 1 THEN g[1] ELSE g[1] \o <<"-">> \o JoinSegs(Tail(g))

AddressInputs == {JoinSegs(g) : g \in UNION {Seqs(AddrSegments, n) : n \in 1..MaxSegments}}

PostalMarks == {<<"yuubin_mark">>, you_bin_ban_gou, you_bin_ban_gou \o <<":">>, <<"yuubin_mark", SP>>}
PostalFirsts == {<<"1", "2", "3">>, <<"0", "1", "2">>, <<"1", "0", "0">>}
PostalSeconds == {<<"4", "5", "6", "7">>, <<"0", "3", "4", "5">>, <<"4", "5", "6">>}

PostalInputs == {m \o a \o <<"-">> \o b : m \in PostalMarks, a \in PostalFirsts, b \in PostalSeconds}

OtherAddressInputs ==
    {<<"1", "emdash", "2", "emdash", "8", "0", "9">>, <<"1", "2", "3", "4", "-", "1", "2", "3", "4">>,
     <<"1", "-", "1", "2", "3", "4", "5">>, <<"1", "-", "1", "2", "0", "4", "5">>,
     <<"1", "1", "0", "-", "2", "0", "0", "0">>, <<"1", "2", "3", "-", "4", "5", "6", "7">>,
     <<"9", "9", "9", "9", "-", "9", "9", "9", "9">>, <<"1", "-">>, <<"-", "1">>}

AddrInputs == AddressInputs \cup PostalInputs \cup OtherAddressInputs

InitJaAddress ==
    /\ text \in AddrInputs
    /\ paths = {} /\ tagged = NoOutput /\ spoken = NoOutput /\ phase = "input"
    /\ handle = NoHandle /\ calls = NoCalls /\ cache = NoCache

JaAddressClassify == phase = "input" /\ Classified(AddressNumberFst(text))

NextJaAddress == JaAddressClassify

SpecJaAddress == InitJaAddress /\ [][NextJaAddress]_vars

IsSeparator(c) == c \in {"-", "emdash"}

\* the text consists of digits and separators only (no postal mark)
IsPlainAddress(s) == \A i \in 1..Len(s) : IsDigit(s[i]) \/ IsSeparator(s[i])

RECURSIVE SplitSegs(_)
\* the separator-delimited segments of a plain address, in order
SplitSegs(s) ==
    IF \A i \in 1..Len(s) : ~IsSeparator(s[i]) THEN <<s>>
    ELSE LET i == CHOOSE j \in 1..Len(s) : IsSeparator(s[j]) /\ \A k \in 1..(j - 1) : ~IsSeparator(s[k])
         IN  <<SubSeq(s, 1, i - 1)>> \o SplitSegs(SubSeq(s, i + 1, Len(s)))

\* the kanji reading of 1..9999 by place value: 千 百 十 take no 一 in front
JaKanjiNumber(n) ==
    LET place(d, unit) == IF d = 0 THEN <<>> ELSE IF d = 1 THEN <<unit>> ELSE <<ZhDigit[d + 1], unit>>
        u == n % 10
    IN  place(n \div 1000, "qian") \o place((n \div 100) % 10, "bai") \o place((n \div 10) % 10, "shi")
          \o (IF u = 0 THEN <<>> ELSE <<ZhDigit[u + 1]>>)

\* the reading of an hour: 零 for 0
JaKanjiNumberOrZero(n) == IF n = 0 THEN <<"ling">> ELSE JaKanjiNumber(n)

MaruDigit == <<<<"MA", "RU">>, <<"I", "CHI">>, <<"NI", "LONG">>, <<"SA", "N">>, <<"YO", "N">>, <<"GO">>,
               <<"RO", "KU">>, <<"NA", "NA">>, <<"HA", "CHI">>, <<"KI", "yu", "LONG">>>>

RECURSIVE MaruReading(_)
MaruReading(d) == IF Len(d) = 0 THEN <<>> ELSE MaruDigit[DigitValue(d[1]) + 1] \o MaruReading(Tail(d))

HasZero(d) == \E i \in 1..Len(d) : d[i] = "0"

RECURSIVE ExpectedAddress(_)
\* non-final segments in kanji, の between, the final segment digit by digit
\* with マル if it has a 0 and in kanji otherwise
ExpectedAddress(g) ==
    IF Len(g) = 1
    THEN IF HasZero(g[1]) THEN MaruReading(g[1]) ELSE JaKanjiNumber(NumeralValue(g[1]))
    ELSE JaKanjiNumber(NumeralValue(g[1])) \o <<"no">> \o ExpectedAddress(Tail(g))

AddressTagged(v) == <<"address_number", SP, "{", SP, "number_part:", SP, Q>> \o v \o <<Q, SP, "}">>

\* segments the grammar reads: zero-free numbers of up to four digits before
\* the last, and a last one that is such a number or has a 0 after a
\* non-zero first digit
ReadableSegs(g) ==
    /\ Len(g) \in 1..4
    /\ \A i \in 1..(Len(g) - 1) : Len(g[i]) \in 1..4 /\ ~HasZero(g[i])
    /\ LET f == g[Len(g)]
       IN  Len(f) >= 1 /\ IF HasZero(f) THEN f[1] # "0" ELSE Len(f) <= 4

\* C8: every tagging of a hyphen-delimited address reads the non-final
\* segments in kanji style and the final segment digit by digit with 0 as
\* マル if and only if it contains a 0, otherwise in kanji style; addresses
\* of readable segments are tagged.
C8_FinalSegmentReading ==
    (phase # "input" /\ IsPlainAddress(text))
        => /\ \A p \in paths : p.out = AddressTagged(ExpectedAddress(SplitSegs(text)))
           /\ ReadableSegs(SplitSegs(text)) => phase = "tagged"

\* 1-21-809 was tagged 一の二十一のハチマルキュー
C8_Witness ==
    /\ phase = "tagged"
    /\ text = <<"1", "-", "2", "1", "-", "8", "0", "9">>
    /\ tagged = AddressTagged(<<"yi", "no", "er", "shi", "yi", "no", "HA", "CHI", "MA", "RU", "KI", "yu", "LONG">>)

\* some maximal run of digits of s starts with 0
SegmentStartsWithZero(s) == \E i \in 1..Len(s) : s[i] = "0" /\ (i = 1 \/ ~IsDigit(s[i - 1]))

\* C9 as stated: no accepted string has a digit segment that starts with 0,
\* postal-code segments included
C9_Original_NoSegmentStartsWithZero == phase = "tagged" => ~SegmentStartsWithZero(text)

IsPostal(s) == Len(s) >= 1 /\ s[1] \in {"yuubin_mark", "you_k"}

\* C9 amended: no string accepted through the address patterns (one to four
\* hyphen-delimited segments) has a digit segment that starts with 0; a
\* postal code, 3 digits and 4 digits after 〒 or 郵便番号, is accepted
\* whatever its digits are, a leading 0 included.
C9_NonPostalNoLeadingZero ==
    /\ (phase = "tagged" /\ ~IsPostal(text)) => ~SegmentStartsWithZero(text)
    /\ \A m \in PostalMarks, a \in PostalFirsts, b \in PostalSeconds :
          (phase # "input" /\ text = m \o a \o <<"-">> \o b /\ Len(b) = 4) => phase = "tagged"

\* 05-1 was rejected, while 1-10-809 with inner zeros only was tagged before
C9_Witness ==
    /\ phase = "rejected"
    /\ text = <<"0", "5", "-", "1">>
    /\ AddressNumberFst(<<"1", "-", "1", "0", "-", "8", "0", "9">>) # {}

-----------------------------------------------------------------------------
(* ja CardinalFst.just_cardinals (ja/taggers/cardinal.py), as the function  *)
(* from a digit string to the set of its readings, for numbers of up to     *)
(* twelve digits.  wan is 万, oku is 億.                                     *)

\* data/numbers/zero.tsv, digit.tsv, ties.tsv, teen.tsv (ja)
ja_graph_zero(d) == IF d = <<"0">> THEN {<<"ling">>} ELSE {}

ja_graph_digit(d) == IF Len(d) = 1 /\ no_zero_digit_accepter(d[1]) THEN {<<ZhDigit[DigitValue(d[1]) + 1]>>} ELSE {}

ja_graph_ties(d) ==
    IF Len(d) = 1 /\ IsDigits(d) /\ DigitValue(d[1]) >= 2 THEN {<<ZhDigit[DigitValue(d[1]) + 1], "shi">>} ELSE {}

ja_graph_teen(d) ==
    IF Len(d) = 2 /\ d[1] = "1" /\ IsDigits(d)
    THEN {<<"shi">> \o (IF d[2] = "0" THEN <<>> ELSE <<ZhDigit[DigitValue(d[2]) + 1]>>)} ELSE {}

\* no_zero_and_one @ graph_digit
graph_digit_alt(d) == IF Len(d) = 1 /\ d[1] \notin {"0", "1"} THEN ja_graph_digit(d) ELSE {}

\* (graph_ties + (graph_digit | delete('0'))) | graph_teen | graph_digit
graph_all(d) ==
    (IF Len(d) = 2
     THEN {t \o u : t \in ja_graph_ties(<<d[1]>>),
                    u \in ja_graph_digit(<<d[2]>>) \cup (IF d[2] = "0" THEN {<<>>} ELSE {})}
     ELSE {})
      \cup ja_graph_teen(d) \cup ja_graph_digit(d)

RECURSIVE StripZeros(_)
\* what closure(delete('0')) may leave of d: d without some of its leading zeros
StripZeros(d) == {d} \cup (IF Len(d) >= 1 /\ d[1] = "0" THEN StripZeros(Tail(d)) ELSE {})

\* union(closure(delete('0')), closure(delete('0')) + graph_all)
zeros_then_all(d) ==
    (IF <<>> \in StripZeros(d) THEN {<<>>} ELSE {}) \cup UNION {graph_all(r) : r \in StripZeros(d)}

graph_hundred_component(d) ==
    IF Len(d) = 0 THEN {}
    ELSE {h \o r : h \in (IF d[1] = "1" THEN {<<"bai">>} ELSE {})
                           \cup {k \o <<"bai">> : k \in graph_digit_alt(<<d[1]>>)},
                   r \in zeros_then_all(Tail(d))}

ja_graph_hundred(d) == IF Len(d) = 3 /\ IsDigits(d) THEN graph_hundred_component(d) ELSE {}

graph_thousand_component(d) ==
    IF Len(d) = 0 THEN {}
    ELSE {h \o r : h \in (IF d[1] = "1" THEN {<<"qian">>} ELSE {})
                           \cup {k \o <<"qian">> : k \in graph_digit_alt(<<d[1]>>)},
                   r \in zeros_then_all(Tail(d)) \cup graph_hundred_component(Tail(d))}

graph_thousand(d) == IF Len(d) = 4 /\ IsDigits(d) THEN graph_thousand_component(d) ELSE {}

graph_thousand_component_alt(d) ==
    IF Len(d) = 0 THEN {}
    ELSE {h \o <<"qian">> \o r : h \in ja_graph_digit(<<d[1]>>),
                                  r \in zeros_then_all(Tail(d)) \cup graph_hundred_component(Tail(d))}

\* pynutil.delete of k zeros: what is left of d, nothing if d does not start so
DeleteZeros(d, k) ==
    IF Len(d) >= k /\ \A i \in 1..k : d[i] = "0" THEN SubSeq(d, k + 1, Len(d)) ELSE <<>>

\* what may follow 万: zeros, a thousand, 0 and a hundred, zeros and graph_all
man_rest(d) ==
    zeros_then_all(d) \cup graph_thousand_component(d) \cup graph_hundred_component(DeleteZeros(d, 1))

\* a position of n digits read by a component, then 万, then the rest
graph_ten_thousand_component(d) ==
    IF Len(d) < 1 THEN {}
    ELSE {h \o <<"wan">> \o r : h \in ja_graph_digit(SubSeq(d, 1, 1)), r \in man_rest(SubSeq(d, 2, Len(d)))}

graph_ten_thousand(d) == IF Len(d) = 5 /\ IsDigits(d) THEN graph_ten_thousand_component(d) ELSE {}

graph_hundred_thousand_component(d) ==
    IF Len(d) < 2 THEN {}
    ELSE {h \o <<"wan">> \o r : h \in graph_all(SubSeq(d, 1, 2)), r \in man_rest(SubSeq(d, 3, Len(d)))}

graph_hundred_thousand(d) == IF Len(d) = 6 /\ IsDigits(d) THEN graph_hundred_thousand_component(d) ELSE {}

graph_million_component(d) ==
    IF Len(d) < 3 THEN {}
    ELSE {h \o <<"wan">> \o r : h \in graph_hundred_component(SubSeq(d, 1, 3)),
                                 r \in man_rest(SubSeq(d, 4, Len(d)))}

graph_million(d) == IF Len(d) = 7 /\ IsDigits(d) THEN graph_million_component(d) ELSE {}

graph_ten_million_component(d) ==
    IF Len(d) < 4 THEN {}
    ELSE {h \o <<"wan">> \o r : h \in graph_thousand_component_alt(SubSeq(d, 1, 4)),
                                 r \in man_rest(SubSeq(d, 5, Len(d)))}

graph_ten_million(d) == IF Len(d) = 8 /\ IsDigits(d) THEN graph_ten_million_component(d) ELSE {}

\* what may follow 億
oku_rest(d) ==
    zeros_then_all(d) \cup graph_ten_million_component(d)
      \cup graph_million_component(DeleteZeros(d, 1))
      \cup graph_hundred_thousand_component(DeleteZeros(d, 2))
      \cup graph_ten_thousand_component(DeleteZeros(d, 3))
      \cup graph_thousand_component(DeleteZeros(d, 4))
      \cup graph_hundred_component(DeleteZeros(d, 5))

graph_hundred_million_component(d) ==
    IF Len(d) < 1 THEN {}
    ELSE {h \o <<"oku">> \o r : h \in ja_graph_digit(SubSeq(d, 1, 1)), r \in oku_rest(SubSeq(d, 2, Len(d)))}

graph_hundred_million(d) == IF Len(d) = 9 /\ IsDigits(d) THEN graph_hundred_million_component(d) ELSE {}

graph_thousand_million_component(d) ==
    IF Len(d) < 2 THEN {}
    ELSE {h \o <<"oku">> \o r : h \in graph_all(SubSeq(d, 1, 2)), r \in oku_rest(SubSeq(d, 3, Len(d)))}

graph_thousand_million(d) == IF Len(d) = 10 /\ IsDigits(d) THEN graph_thousand_million_component(d) ELSE {}

graph_ten_billions_component(d) ==
    IF Len(d) < 3 THEN {}
    ELSE {h \o <<"oku">> \o r : h \in graph_hundred_component(SubSeq(d, 1, 3)),
                                 r \in oku_rest(SubSeq(d, 4, Len(d)))}

graph_ten_billions(d) == IF Len(d) = 11 /\ IsDigits(d) THEN graph_ten_billions_component(d) ELSE {}

graph_hundred_billions_component(d) ==
    IF Len(d) < 4 THEN {}
    ELSE {h \o <<"oku">> \o r : h \in graph_thousand_component_alt(SubSeq(d, 1, 4)),
                                 r \in oku_rest(SubSeq(d, 5, Len(d)))}

graph_hundred_billions(d) == IF Len(d) = 12 /\ IsDigits(d) THEN graph_hundred_billions_component(d) ELSE {}

graph_basic(d) ==
    graph_hundred_billions(d) \cup graph_ten_billions(d) \cup graph_thousand_million(d)
      \cup graph_hundred_million(d) \cup graph_ten_million(d) \cup graph_million(d)
      \cup graph_hundred_thousand(d) \cup graph_ten_thousand(d) \cup graph_thousand(d)
      \cup ja_graph_hundred(d) \cup graph_all(d) \cup ja_graph_zero(d)

\* a rewrite that deletes the first comma only
comma_separated_graph_first_comma(d) ==
    IF \A i \in 1..Len(d) : IsDigit(d[i]) \/ d[i] = ","
    THEN {IF \E i \in 1..Len(d) : d[i] = ","
          THEN LET k == CHOOSE i \in 1..Len(d) : d[i] = "," /\ \A j \in 1..(i - 1) : d[j] # ","
               IN  SubSeq(d, 1, k - 1) \o SubSeq(d, k + 1, Len(d))
          ELSE d}
    ELSE {}

\* cdrewrite(delete(","), "", "", closure(union(NEMO_DIGIT, ","))): every comma goes
comma_separated_graph(d) ==
    IF \A i \in 1..Len(d) : IsDigit(d[i]) \/ d[i] = ","
    THEN {SelectSeq(d, LAMBDA c : c # ",")} ELSE {}

comma_cardinal_graph(d) == UNION {graph_basic(r) : r \in comma_separated_graph(d)}

just_cardinals(d) == comma_cardinal_graph(d) \cup graph_basic(d)

\* just_cardinals applied at the position of a configuration
ja_cardinal(C, s) ==
    UNION {{[pos |-> x[1].pos + x[2], out |-> x[1].out \o o, w |-> x[1].w] :
              o \in just_cardinals(SubSeq(s, x[1].pos, x[1].pos + x[2] - 1))} :
           x \in {y \in C \X (1..Len(s)) : y[1].pos + y[2] - 1 <= Len(s)}}

-----------------------------------------------------------------------------
(* ja TimeFst (ja/taggers/time.py)                                         *)
(*   ji_hour 時  kan 間  goro 頃  fen 分  byou 秒  han 半  su gi 過ぎ       *)
(*   dian_point 点  go_noon zen 午前  go_noon go_after 午後  kon ya 今夜    *)

\* data/time/division.tsv
division_tsv == {<<"go_noon", "zen">>, <<"go_noon", "go_after">>, <<"kon", "ya">>}

\* data/time/hour.tsv, minute.tsv, second.tsv: the clock numerals and their readings
hour_clock_tsv == {<<Numeral(n), CHOOSE r \in just_cardinals(Numeral(n)) : TRUE>> : n \in 0..24}
minute_clock_tsv == {<<Numeral(n), CHOOSE r \in just_cardinals(Numeral(n)) : TRUE>> : n \in 1..59}

\* delete("0").ques
delete_zero_ques(C, s) == C \cup delete(C, s, <<"0">>)

minute_second_cardinal_reading_zero(C, s) == ja_cardinal(C \cup cross(C, s, <<"0">>, <<"ling">>), s)
minute_second_cardinal(C, s) == ja_cardinal(delete_zero_ques(C, s), s)

\* x | (x + cross(".", "点") + graph_cardinal), x already applied
with_decimal(X, s) == X \cup ja_cardinal(cross(X, s, <<".">>, <<"dian_point">>), s)

division_component(C, s) == insert(accep_any(insert(C, <<"suffix:", SP, Q>>), s, division_tsv), <<Q>>)

hour_suffixes == {<<"ji_hour">>, <<"ji_hour", "kan">>, <<"ji_hour", "goro">>}

hour_component(C, s) ==
    insert(accep_any(with_decimal(ja_cardinal(insert(C, <<"hours:", SP, Q>>), s), s), s, hour_suffixes),
           <<Q>>)

\* closure(accep("過ぎ") | accep("頃"), 0, 1)
sugi_goro(C, s) == C \cup accep(C, s, <<"su", "gi">>) \cup accep(C, s, <<"goro">>)

regular_minutes(C, s) ==
    insert(sugi_goro(accep(with_decimal(minute_second_cardinal(insert(C, <<"minutes:", SP, Q>>), s), s),
                           s, <<"fen">>), s), <<Q>>)

zero_minutes(C, s) == delete(C, s, <<"0", "0", "fen">>) \cup delete(C, s, <<"0", "fen">>)

half_minutes(C, s) == insert(sugi_goro(accep(insert(C, <<"minutes:", SP, Q>>), s, <<"han">>), s), <<Q>>)

minute_component(C, s) == regular_minutes(C, s) \cup zero_minutes(C, s) \cup half_minutes(C, s)

second_component(C, s) ==
    insert(accep(with_decimal(minute_second_cardinal(insert(C, <<"seconds:", SP, Q>>), s), s),
                 s, <<"byou">>), <<Q>>)

graph_individual_time(C, s) ==
    LET d == C \cup insert(division_component(C, s), <<SP>>)
        h == hour_component(d, s)
        m == minute_component(d, s)
        hm == minute_component(insert(h, <<SP>>), s)
    IN  h \cup m \cup second_component(d, s) \cup hm
          \cup second_component(insert(hm, <<SP>>), s)
          \cup second_component(insert(m, <<SP>>), s)

hour_clock_component(C, s) ==
    insert(string_map(delete_zero_ques(insert(C, <<"hours:", SP, Q>>), s), s, hour_clock_tsv),
           <<"ji_hour", Q>>)

regular_minute_clock(C, s) ==
    insert(string_map(delete_zero_ques(insert(C, <<"minutes:", SP, Q>>), s), s, minute_clock_tsv),
           <<"fen", Q>>)

zero_minute_clock(C, s) == delete(C, s, <<"0", "0">>)

minute_clock_component(C, s) == regular_minute_clock(C, s) \cup zero_minute_clock(C, s)

second_clock_component(C, s) ==
    insert(string_map(delete_zero_ques(insert(C, <<"seconds:", SP, Q>>), s), s, minute_clock_tsv),
           <<"byou", Q>>)

graph_clock(C, s) ==
    LET hm == minute_clock_component(delete(insert(hour_clock_component(C, s), <<SP>>), s, <<":">>), s)
    IN  hm \cup second_clock_component(delete(insert(hm, <<SP>>), s, <<":">>), s)

time_graph(C, s) == graph_individual_time(C, s) \cup graph_clock(C, s)

\* TimeFst.fst = add_tokens(graph)
TimeFst(s) == add_tokens(Accepting(time_graph(Start, s), s), "time")

(* ja time verbalizer (ja/verbalizers/time.py) *)

\* delete("<field>: \"") + closure(NEMO_NOT_QUOTE) + delete("\"")
time_v_field(C, s, field) ==
    delete(closure_not_quote(delete(C, s, <<field, SP, Q>>), s, 0), s, <<Q>>)

time_v_hour_component(C, s) == time_v_field(C, s, "hours:")
time_v_minute_component(C, s) == time_v_field(C, s, "minutes:")
time_v_second_component(C, s) == time_v_field(C, s, "seconds:")
time_v_division_component(C, s) == time_v_field(C, s, "suffix:")

graph_basic_time(C, s) ==
    LET d == C \cup delete(time_v_division_component(C, s), s, <<SP>>)
        h == time_v_hour_component(d, s)
        hm == time_v_minute_component(delete(h, s, <<SP>>), s)
    IN  time_v_second_component(delete(hm, s, <<SP>>), s) \cup hm \cup h
          \cup time_v_minute_component(d, s) \cup time_v_second_component(d, s)

\* verbalizer TimeFst.fst = delete_tokens(final_graph)
TimeVerbalizer(s) ==
    Accepting(delete_tokens_tail(graph_basic_time(delete_tokens_head(Start, s, "time"), s), s), s)

(* inputs of the time tagger *)

\* hours are drawn from 0..MaxHour
MaxHour == 12

MinuteForms ==
    {<<>>, <<"0", "0", "fen">>, <<"0", "fen">>, <<"0", "7", "fen">>, <<"7", "fen">>, <<"3", "0", "fen">>,
     <<"han">>, <<"1", "0", "fen">>, <<"3", "0", "fen", "1", "5", "byou">>, <<"0", "0", "fen", "0", "5", "byou">>}

HourText(h) == Numeral(h) \o <<"ji_hour">>

HourMinuteInputs == {HourText(h) \o m : h \in 0..MaxHour, m \in MinuteForms}

OtherTimeInputs ==
    {<<"kon", "ya", "0", "ji_hour">>, <<"go_noon", "zen", "9", "ji_hour", "3", "0", "fen">>,
     <<"3", "0", "fen">>, <<"0", "0", "fen">>, <<"1", "5", "byou">>, <<"7", ".", "5", "ji_hour", "kan">>,
     <<"1", "2", ":", "0", "5">>, <<"1", "2", ":", "0", "0">>, <<"0", "9", ":", "3", "0", ":", "1", "5">>,
     <<"2", "5", ":", "0", "0">>, <<"3", "ji_hour", "goro">>, <<"3", "fen", "su", "gi">>, <<"ji_hour">>}

\* a minute or a second written 01..09, after an hour, after a minute, alone
LeadingZeroForms ==
    UNION {{<<"0", DigitChar[d + 1], "fen">>, <<"3", "0", "fen", "0", DigitChar[d + 1], "byou">>,
            <<"0", DigitChar[d + 1], "byou">>} : d \in 1..9}

\* the forms that may follow an hour: those that start with a minute
AfterHourForms == {m \in LeadingZeroForms : m[3] = "fen"}

LeadingZeroInputs ==
    {HourText(h) \o m : h \in 0..MaxHour, m \in AfterHourForms} \cup LeadingZeroForms

TimeInputs == HourMinuteInputs \cup LeadingZeroInputs \cup OtherTimeInputs

InitJaTime ==
    /\ text \in TimeInputs
    /\ paths = {} /\ tagged = NoOutput /\ spoken = NoOutput /\ phase = "input"
    /\ handle = NoHandle /\ calls = NoCalls /\ cache = NoCache

JaTimeClassify == phase = "input" /\ Classified(TimeFst(text))

JaTimeVerbalize == phase = "tagged" /\ Verbalized(TimeVerbalizer(tagged))

NextJaTime == JaTimeClassify \/ JaTimeVerbalize

SpecJaTime == InitJaTime /\ [][NextJaTime]_vars

HasField(out, field) == \E i \in 1..Len(out) : out[i] = field

\* C10: for every hour H the tagging selected for H時00分 and for H時0分 has
\* no minutes field, and the spoken form is the reading of H followed by 時.
C10_ZeroMinutesElided ==
    \A h \in 0..MaxHour, z \in {<<"0", "0", "fen">>, <<"0", "fen">>} :
        text = HourText(h) \o z
            => /\ phase = "tagged" => ~HasField(tagged, "minutes:")
               /\ phase \in {"verbalized", "unverbalized"}
                     => spoken = JaKanjiNumberOrZero(h) \o <<"ji_hour">>

\* the reading of a minute / second form whose last value is written 0d
LeadingZeroReading(m) ==
    IF Len(m) = 3 THEN <<ZhDigit[DigitValue(m[2]) + 1], m[3]>>
    ELSE <<"san", "shi", "fen", ZhDigit[DigitValue(m[5]) + 1], "byou">>

\* C11: a minute or second written 01..09 is read as the cardinal of its
\* non-zero digit with nothing for the zero, after every hour and alone
\* (3時07分 -> 三時七分), and the hour 0 is kept (0時 -> 零時).
C11_LeadingZeroDropped ==
    /\ \A m \in LeadingZeroForms :
          /\ (text = m /\ phase # "input")
                => /\ phase # "rejected"
                   /\ phase = "verbalized" => spoken = LeadingZeroReading(m)
                   /\ \A p \in paths : ~HasField(p.out, "ling")
          /\ \A h \in 0..MaxHour :
                (text = HourText(h) \o m /\ m \in AfterHourForms /\ phase # "input")
                   => /\ phase \notin {"rejected", "unverbalized"}
                      /\ Cardinality(paths) = 1
                      /\ phase = "verbalized"
                            => spoken = JaKanjiNumberOrZero(h) \o <<"ji_hour">> \o LeadingZeroReading(m)
    /\ (text = <<"0", "ji_hour">> /\ phase # "input")
          => /\ phase \notin {"rejected", "unverbalized"}
             /\ phase = "verbalized" => spoken = <<"ling", "ji_hour">>

\* 3時07分 was spoken 三時七分
C11_Witness ==
    /\ phase = "verbalized"
    /\ text = <<"3", "ji_hour", "0", "7", "fen">>
    /\ spoken = <<"san", "ji_hour", "qi", "fen">>

-----------------------------------------------------------------------------
(* ja telephone tagger (ja/taggers/telephone.py).  Kana are written one    *)
(* symbol per kana: ZE RO ゼロ, PU RA SU プラス; nakaten is ・, dun is 、, *)
(* no is の, nai sen is 内線.                                             *)

\* the readings of tts_digit_map, by digit value
TtsReading ==
    <<<<"ZE", "RO">>, <<"I", "CHI">>, <<"NI", "LONG">>, <<"SA", "N">>, <<"YO", "N">>, <<"GO">>,
      <<"RO", "KU">>, <<"NA", "NA">>, <<"HA", "CHI">>, <<"KI", "yu", "LONG">>>>

tts_digit_map == {<<<<DigitChar[i + 1]>>, TtsReading[i + 1]>> : i \in 0..9}

digit(C, s) == string_map(C, s, tts_digit_map)

\* pynini.cross(d, reading of d) for one given digit
cross_digit(C, s, d) == cross(C, s, <<DigitChar[d + 1]>>, TtsReading[d + 1])

digit_separator(C) == insert(C, <<"nakaten">>)
segment_separator(C) == insert(C, <<"dun">>)

\* data/telephone/telephone_prompt.tsv: the prompt words are data; the
\* optional prompt prefix is modelled over a table without entries
telephone_prompts(C, s) == string_map(C, s, {})

PU_RA_SU == <<"PU", "RA", "SU">>

\* the listed country codes and the generic  + digit{1,3}
ja_country_codes(C, s) ==
    UNION {cross(C, s, <<"+">> \o Numeral(n), PU_RA_SU \o TtsReading[(n \div 10) + 1] \o TtsReading[(n % 10) + 1]) :
             n \in {81, 44, 49, 33, 39, 86, 82, 91, 61}}
      \cup cross(C, s, <<"+", "1">>, PU_RA_SU \o TtsReading[2])
      \cup closure_map(digit(cross(C, s, <<"+">>, PU_RA_SU), s), s, tts_digit_map, 0, 2)

country_code(C, s) ==
    LET prompt == C \cup delete(telephone_prompts(C, s), s, <<SP>>)
        code == insert(ja_country_codes(insert(prompt, <<"country_code:", SP, Q>>), s), <<Q>>)
    IN  insert(code \cup delete(code, s, <<"-">>), <<SP>>)

one_digit(C, s) == digit(C, s)
two_digits(C, s) == digit(digit_separator(digit(C, s)), s)
three_digits(C, s) == digit(digit_separator(two_digits(C, s)), s)
four_digits(C, s) == digit(digit_separator(three_digits(C, s)), s)

\* 0[5789]0-XXXX-XXXX
mobile_patterns(C, s) ==
    UNION {four_digits(segment_separator(delete(
               four_digits(segment_separator(delete(
                   cross_digit(cross_digit(cross_digit(C, s, 0), s, m), s, 0), s, <<"-">>)), s),
               s, <<"-">>)), s) : m \in {5, 7, 8, 9}}

separator(C, s) == delete(C, s, <<"-">>) \cup delete(C, s, <<SP>>) \cup delete(C, s, <<".">>)

paren_pattern(C, s) ==
    four_digits(delete(four_digits(segment_separator(delete(C, s, <<"(">>)), s), s, <<")">>), s)

standard_pattern(C, s) == four_digits(segment_separator(separator(four_digits(C, s), s)), s)

\* 03 / 04 / 06
one_digit_area(C, s) ==
    UNION {LET a == separator(cross_digit(cross_digit(C, s, 0), s, x), s)
           IN  standard_pattern(a, s) \cup paren_pattern(a, s) : x \in {3, 4, 6}}

\* 011 / 052 / 075 / 092 / 022, with hyphens or with parentheses
two_digit_area(C, s) ==
    UNION {LET a == cross_digit(cross_digit(cross_digit(C, s, 0), s, x[1]), s, x[2])
           IN  four_digits(segment_separator(delete(
                   three_digits(segment_separator(delete(a, s, <<"-">>)), s), s, <<"-">>)), s)
                 \cup four_digits(delete(three_digits(segment_separator(delete(a, s, <<"(">>)), s), s, <<")">>), s) :
             x \in {<<1, 1>>, <<5, 2>>, <<7, 5>>, <<9, 2>>, <<2, 2>>}}

three_digit_area(C, s) ==
    four_digits(segment_separator(delete(
        two_digits(segment_separator(delete(
            digit(digit(digit(cross_digit(C, s, 0), s), s), s), s, <<"-">>)), s),
        s, <<"-">>)), s)

four_digit_area(C, s) ==
    four_digits(segment_separator(delete(
        one_digit(segment_separator(delete(
            digit(digit(digit(digit(cross_digit(C, s, 0), s), s), s), s), s, <<"-">>)), s),
        s, <<"-">>)), s)

fixed_patterns(C, s) ==
    one_digit_area(C, s) \cup two_digit_area(C, s) \cup three_digit_area(C, s) \cup four_digit_area(C, s)

non_zero_digit(C, s) == UNION {cross_digit(C, s, i) : i \in 2..9}

local_patterns(C, s) ==
    LET n == non_zero_digit(C, s)
    IN  four_digits(segment_separator(delete(three_digits(n, s), s, <<"-">>)), s)
          \cup four_digits(segment_separator(delete(two_digits(n, s), s, <<"-">>)), s)
          \cup four_digits(segment_separator(delete(one_digit(n, s), s, <<"-">>)), s)
          \cup four_digits(n, s)

\* 0120 / 0800 / 0570
free_dial_patterns(C, s) ==
    UNION {three_digits(segment_separator(delete(
               three_digits(segment_separator(delete(
                   cross_digit(cross_digit(cross_digit(cross_digit(C, s, 0), s, x[1]), s, x[2]), s, 0),
                   s, <<"-">>)), s),
               s, <<"-">>)), s) : x \in {<<1, 2>>, <<8, 0>>, <<5, 7>>}}

domestic_numbers(C, s) ==
    mobile_patterns(C, s) \cup fixed_patterns(C, s) \cup local_patterns(C, s) \cup free_dial_patterns(C, s)

number_part_domestic(C, s) == insert(domestic_numbers(insert(C, <<"number_part:", SP, Q>>), s), <<Q>>)

intl_area_code(C, s) == one_digit(C, s) \cup two_digits(C, s) \cup three_digits(C, s)

number_group(C, s) == three_digits(C, s) \cup four_digits(C, s)

international_numbers(C, s) ==
    LET a == segment_separator(separator(intl_area_code(C, s), s))
        an == number_group(a, s)
        ann == number_group(segment_separator(separator(an, s)), s)
    IN  ann
          \cup number_group(segment_separator(separator(ann, s)), s)
          \cup four_digits(a, s)
          \cup UNION {standard_pattern(segment_separator(separator(cross_digit(C, s, x), s)), s) : x \in {3, 6}}
          \cup UNION {standard_pattern(segment_separator(separator(
                          cross_digit(cross_digit(C, s, x), s, 0), s)), s) : x \in {5, 7, 8, 9}}

number_part_international(C, s) ==
    insert(international_numbers(insert(C, <<"number_part:", SP, Q>>), s), <<Q>>)

RECURSIVE closure_digit_blank(_, _, _)
\* pynini.closure(digit + insert(" "), 0, hi)
closure_digit_blank(C, s, hi) ==
    IF hi = 0 \/ C = {} THEN C
    ELSE C \cup closure_digit_blank(insert(digit(C, s), <<SP>>), s, hi - 1)

\* closure(insert(" ") + extension, 0, 1)
extension(C, s) ==
    C \cup insert(digit(closure_digit_blank(insert(C, <<SP, "extension:", SP, Q>>), s, 3), s), <<Q>>)

ja_telephone_graph(C, s) ==
    LET intl == number_part_international(country_code(C, s), s)
        dom == number_part_domestic(C, s)
    IN  extension(intl, s) \cup intl \cup extension(dom, s) \cup dom

\* TelephoneFst.fst = add_tokens(graph)
JaTelephoneFst(s) == add_tokens(Accepting(ja_telephone_graph(Start, s), s), "telephone")

(* ja telephone verbalizer (ja/verbalizers/telephone.py) *)

ja_tel_v_optional_country_code(C, s) ==
    C \cup insert(delete_space(delete(
                      closure_not_quote(delete(C, s, <<"country_code:", SP, Q>>), s, 1),
                      s, <<Q>>), s), <<"dun">>)

ja_tel_v_number_part(C, s) ==
    LET v == closure_not_quote(delete(C, s, <<"number_part:", SP, Q>>), s, 1)
    IN  delete(v \cup add_weight(delete(v, s, <<SP>>), -1), s, <<Q>>)

ja_tel_v_optional_extension(C, s) ==
    C \cup delete(closure_not_quote(delete(
                      insert(delete_space(C, s), <<"dun", "nai", "sen">>),
                      s, <<"extension:", SP, Q>>), s, 1), s, <<Q>>)

ja_tel_v_graph(C, s) ==
    ja_tel_v_optional_extension(ja_tel_v_number_part(ja_tel_v_optional_country_code(C, s), s), s)

\* verbalizer TelephoneFst.fst = delete_tokens(graph)
JaTelephoneVerbalizer(s) ==
    Accepting(delete_tokens_tail(ja_tel_v_graph(delete_tokens_head(Start, s, "telephone"), s), s), s)

(* inputs of the ja telephone tagger *)

\* the four-digit groups the numbers are built from
JaTelGroups == {<<1, 2, 3, 4>>, <<5, 6, 7, 8>>, <<0, 0, 0, 0>>, <<9, 0, 1, 2>>}

DigitText(g) == [i \in 1..Len(g) |-> DigitChar[g[i] + 1]]

JaMobileText(m, a, b) == <<"0", DigitChar[m + 1], "0", "-">> \o DigitText(a) \o <<"-">> \o DigitText(b)

JaMobileInputs == {JaMobileText(m, a, b) : m \in {5, 7, 8, 9}, a \in JaTelGroups, b \in JaTelGroups}

OtherJaTelInputs ==
    {<<"0", "3", "-">> \o DigitText(<<1, 2, 3, 4>>) \o <<"-">> \o DigitText(<<5, 6, 7, 8>>),
     <<"0", "3", "(">> \o DigitText(<<1, 2, 3, 4>>) \o <<")">> \o DigitText(<<5, 6, 7, 8>>),
     <<"0", "3", " ", "(">> \o DigitText(<<1, 2, 3, 4>>) \o <<")">> \o DigitText(<<5, 6, 7, 8>>),
     <<"0", "1", "1", "-", "1", "2", "3", "-">> \o DigitText(<<5, 6, 7, 8>>),
     <<"0", "1", "1", "(", "1", "2", "3", ")">> \o DigitText(<<5, 6, 7, 8>>),
     <<"0", "4", "2", "2", "-", "1", "2", "-">> \o DigitText(<<5, 6, 7, 8>>),
     <<"0", "9", "9", "6", "9", "-", "1", "-">> \o DigitText(<<5, 6, 7, 8>>),
     <<"0", "1", "2", "0", "-", "1", "2", "3", "-", "4", "5", "6">>,
     <<"2", "3", "4", "5", "-">> \o DigitText(<<5, 6, 7, 8>>),
     <<"2", "3", "4", "5", "6">>,
     <<"+", "8", "1", "-", "9", "0", "-">> \o DigitText(<<1, 2, 3, 4>>) \o <<"-">> \o DigitText(<<5, 6, 7, 8>>),
     <<"+", "1", "-", "5", "5", "5", "-", "1", "2", "3", "-">> \o DigitText(<<4, 5, 6, 7>>),
     <<"+", "3", "5", "8", "1", "2", ".", "1", "2", "3", ".", "4", "5", "6">>,
     JaMobileText(9, <<1, 2, 3, 4>>, <<5, 6, 7, 8>>) \o <<"1", "2", "3">>,
     <<"0", "9", "0">> \o DigitText(<<1, 2, 3, 4>>) \o DigitText(<<5, 6, 7, 8>>),
     <<"1", "2", "3">>}

JaTelInputs == JaMobileInputs \cup OtherJaTelInputs

InitJaTel ==
    /\ text \in JaTelInputs
    /\ paths = {} /\ tagged = NoOutput /\ spoken = NoOutput /\ phase = "input"
    /\ handle = NoHandle /\ calls = NoCalls /\ cache = NoCache

JaTelClassify == phase = "input" /\ Classified(JaTelephoneFst(text))

JaTelVerbalize == phase = "tagged" /\ Verbalized(JaTelephoneVerbalizer(tagged))

NextJaTel == JaTelClassify \/ JaTelVerbalize

SpecJaTel == InitJaTel /\ [][NextJaTel]_vars

RECURSIVE KanaDigits(_)
\* the katakana readings of a sequence of digit values, one after another
KanaDigits(g) == IF g = <<>> THEN <<>> ELSE TtsReading[Head(g) + 1] \o KanaDigits(Tail(g))

\* C12: every mobile number 0m0-XXXX-XXXX is spoken as the katakana readings
\* of its digits with no for each hyphen and no other separator
\* (090-1234-5678 -> ゼロキューゼロのイチニーサンヨンのゴロクナナハチ).
C12_MobileHyphenAsNo ==
    \A m \in {5, 7, 8, 9}, a \in JaTelGroups, b \in JaTelGroups :
        (text = JaMobileText(m, a, b) /\ phase # "input")
            => /\ phase \notin {"rejected", "unverbalized"}
               /\ phase = "verbalized"
                     => spoken = KanaDigits(<<0, m, 0>>) \o <<"no">> \o KanaDigits(a)
                                   \o <<"no">> \o KanaDigits(b)

-----------------------------------------------------------------------------
(* ja money tagger (ja/taggers/money.py)                                   *)
(*   yen_sign ¥  yen_wide ￥  dollar_wide ＄  euro_sign €  pound_sign £     *)
(*   en_k 円  DO RU ドル  YU LONG RO ユーロ  PO N DO ポンド  sen_k 銭       *)
(*   MA I NA SU マイナス  minus_wide −                                      *)

DO_RU == <<"DO", "RU">>
YU_RO == <<"YU", "LONG", "RO">>
PO_N_DO == <<"PO", "N", "DO">>

currency_symbols_map ==
    {<<<<"yen_sign">>, <<"en_k">>>>, <<<<"$">>, DO_RU>>, <<<<"euro_sign">>, YU_RO>>,
     <<<<"pound_sign">>, PO_N_DO>>, <<<<"yen_wide">>, <<"en_k">>>>, <<<<"dollar_wide">>, DO_RU>>}

currency_units_text == {<<"en_k">>, DO_RU, YU_RO, PO_N_DO}

any_currency_form(C, s) == string_map(C, s, currency_symbols_map) \cup accep_any(C, s, currency_units_text)

currency_component(C, s) == insert(any_currency_form(insert(C, <<"currency:", SP, Q>>), s), <<Q>>)

negative_sign_chars == {<<"minus_wide">>, <<"-">>}

pre_negative_boundary_chars ==
    {<<":">>, <<"colon_wide">>, <<"lparen_wide">>, <<"(">>, <<"rparen_wide">>, <<")">>, <<"lkagi">>,
     <<"lkagi2">>, <<"ldquo">>, <<"lsquo">>, <<"dun">>, <<SP>>}

RECURSIVE delete_closure_any(_, _, _)
\* pynutil.delete(pynini.closure(union of words))
delete_closure_any(C, s, words) ==
    IF C = {} THEN C
    ELSE C \cup delete_closure_any(UNION {delete(C, s, x) : x \in words}, s, words)

process_negative_sign(C, s) ==
    LET b == insert(delete_closure_any(C, s, pre_negative_boundary_chars), <<"negative:", SP, Q, "true", Q, SP>>)
        n == UNION {delete(b, s, x) : x \in negative_sign_chars}
    IN  n \cup delete(n, s, <<SP>>)

leading_optional_negative_tag(C, s) == C \cup process_negative_sign(C, s)

\* number_string_with_commas @ cardinal_numbers
integer_part_verbalized(C, s) == ja_cardinal(C, s)

integer_part_tagged(C, s) == insert(integer_part_verbalized(insert(C, <<"integer_part:", SP, Q>>), s), <<Q>>)

decimal_part_verbalized(C, s) == ja_cardinal(C, s)

\* accep(".") copies the point to the output, before the field name
decimal_part_tagged(C, s) ==
    insert(decimal_part_verbalized(insert(accep(C, s, <<".">>), <<"decimal_part:", SP, Q>>), s), <<Q>>)

optional_decimal_part_tagged(C, s) == C \cup decimal_part_tagged(insert(C, <<SP>>), s)

prefix_form(C, s) ==
    optional_decimal_part_tagged(integer_part_tagged(insert(currency_component(C, s), <<SP>>), s), s)

suffix_form(C, s) ==
    currency_component(insert(optional_decimal_part_tagged(integer_part_tagged(C, s), s), <<SP>>), s)

money_amount_structure(C, s) == prefix_form(C, s) \cup suffix_form(C, s)

optional_suffix_fun(C, s) ==
    C \cup cross(insert(C, <<SP, "unit:", SP, Q, "fen", Q>>), s, <<"fen">>, <<>>)

money_graph(C, s) == optional_suffix_fun(money_amount_structure(leading_optional_negative_tag(C, s), s), s)

\* MoneyFst.fst = add_tokens(graph)
MoneyFst(s) == add_tokens(Accepting(money_graph(Start, s), s), "money")

(* ja money verbalizer (ja/verbalizers/money.py) *)

process_negative(C, s) ==
    C \cup insert(delete_space(delete(C, s, <<"negative:", SP, Q, "true", Q>>), s), <<"MA", "I", "NA", "SU">>)

process_decimal(C, s) ==
    C \cup insert(delete(closure_not_quote(delete(delete_space(C, s), s, <<"decimal_part:", SP, Q>>), s, 1),
                         s, <<Q>>), <<"sen_k">>)

integer_value_content(C, s) == closure_not_quote(C, s, 1)

yen_reorder_path(C, s) ==
    insert(delete(integer_value_content(delete(delete_space(
               delete(C, s, <<"currency:", SP, Q, "en_k", Q>>), s), s, <<"integer_part:", SP, Q>>), s),
               s, <<Q>>), <<"en_k">>)

\* difference(closure(NEMO_NOT_QUOTE, 1), "円")
non_yen_currency_value(C, s) ==
    UNION {{r \in closure_not_quote({c}, s, 1) : SubSeq(s, c.pos, r.pos - 1) # <<"en_k">>} : c \in C}

extract_non_yen_currency_tag_and_value(C, s) ==
    delete(non_yen_currency_value(delete(C, s, <<"currency:", SP, Q>>), s), s, <<Q>>)

extract_integer_tag_and_value(C, s) ==
    delete(integer_value_content(delete(C, s, <<"integer_part:", SP, Q>>), s), s, <<Q>>)

general_ci_path_for_non_yen(C, s) ==
    extract_integer_tag_and_value(delete_space(extract_non_yen_currency_tag_and_value(C, s), s), s)

integer_first_path(C, s) ==
    delete(closure_not_quote(delete(delete_space(extract_integer_tag_and_value(C, s), s),
                                    s, <<"currency:", SP, Q>>), s, 1), s, <<Q>>)

currency_integer_logic(C, s) ==
    yen_reorder_path(C, s) \cup general_ci_path_for_non_yen(C, s) \cup integer_first_path(C, s)

process_unit_fun(C, s) ==
    C \cup insert(delete(delete_space(C, s), s, <<"unit:", SP, Q, "fen", Q>>), <<"fen">>)

money_v_graph(C, s) ==
    process_unit_fun(process_decimal(currency_integer_logic(process_negative(C, s), s), s), s)

\* verbalizer MoneyFst.fst = delete_tokens(graph)
MoneyVerbalizer(s) ==
    Accepting(delete_tokens_tail(money_v_graph(delete_tokens_head(Start, s, "money"), s), s), s)

(* inputs of the money tagger *)

MoneyAmounts ==
    {<<"0">>, <<"1">>, <<"7">>, <<"1", "0">>, <<"2", "5">>, <<"1", "0", "0">>, <<"9", "8", "0">>,
     <<"1", "5", "0", "0">>, <<"1", ",", "5", "0", "0">>}

MoneyDecimals == {<<>>, <<".", "5">>, <<".", "5", "0">>}

MoneySigns == {<<>>, <<"-">>}

MoneyInputs ==
    {g \o e[1] \o a \o d : g \in MoneySigns, e \in currency_symbols_map, a \in MoneyAmounts, d \in MoneyDecimals}
      \cup {g \o a \o d \o u : g \in MoneySigns, a \in MoneyAmounts, d \in MoneyDecimals, u \in currency_units_text}
      \cup {<<"1", "0", "0", "en_k", "fen">>, <<"(", "-", " ", "$", "5">>, <<"1", "0", "0">>, <<"en_k">>,
            <<"$", "1", "0", "0", "DO", "RU">>}

InitJaMoney ==
    /\ text \in MoneyInputs
    /\ paths = {} /\ tagged = NoOutput /\ spoken = NoOutput /\ phase = "input"
    /\ handle = NoHandle /\ calls = NoCalls /\ cache = NoCache

JaMoneyClassify == phase = "input" /\ Classified(MoneyFst(text))

JaMoneyVerbalize == phase = "tagged" /\ Verbalized(MoneyVerbalizer(tagged))

NextJaMoney == JaMoneyClassify \/ JaMoneyVerbalize

SpecJaMoney == InitJaMoney /\ [][NextJaMoney]_vars

\* the reading of an amount: the one reading just_cardinals gives it
AmountReading(a) == CHOOSE r \in just_cardinals(a) : TRUE

\* C13: an amount with the currency before it (a symbol) and the same amount
\* with the currency word after it are both spoken amount first, currency
\* word second ($100 and 100ドル -> 百ドル).
C13_AmountBeforeCurrency ==
    \A e \in currency_symbols_map, a \in MoneyAmounts :
        (text \in {e[1] \o a, a \o e[2]} /\ phase # "input")
            => /\ phase \notin {"rejected", "unverbalized"}
               /\ phase = "verbalized" => spoken = AmountReading(a) \o e[2]

\* C14: every tagged string the money tagger emits, with or without a
\* decimal part, in prefix or in suffix form, is accepted by the money
\* verbalizer.
C14_TaggedInVerbalizerDomain == \A p \in paths : MoneyVerbalizer(p.out) # {}

-----------------------------------------------------------------------------
(* ja CardinalFst: the tagger's final graph (ja/taggers/cardinal.py)       *)

\* insert("negative: \"") + (accep("-") | cross("マイナス", "-")) + insert("\"")
optional_sign(C, s) ==
    LET n == insert(C, <<"negative:", SP, Q>>)
    IN  insert(accep(n, s, <<"-">>) \cup cross(n, s, <<"MA", "I", "NA", "SU">>, <<"-">>), <<Q>>)

cardinal_final_graph(C, s) ==
    insert(ja_cardinal(insert(insert(optional_sign(C, s), <<SP>>), <<"integer:", SP, Q>>), s), <<Q>>)
      \cup insert(ja_cardinal(insert(C, <<"integer:", SP, Q>>), s), <<Q>>)

\* CardinalFst.fst = add_tokens(final_graph)
CardinalFst(s) == add_tokens(Accepting(cardinal_final_graph(Start, s), s), "cardinal")

(* inputs of the cardinal tagger *)

\* NEMO_DIGIT**12 is the longest digit string graph_basic reads
CardinalMaxDigits == 12

\* how the digits after the first are filled in
CardinalFills == {"zeros", "ones", "nines", "last", "alternate", "count"}

FillDigit(f, i, n) ==
    CASE f = "zeros" -> "0"
      [] f = "ones" -> "1"
      [] f = "nines" -> "9"
      [] f = "last" -> IF i = n THEN "5" ELSE "0"
      [] f = "alternate" -> IF i % 2 = 0 THEN "0" ELSE "3"
      [] OTHER -> DigitChar[(i % 10) + 1]

CardinalDigits(first, f, n) == [i \in 1..n |-> IF i = 1 THEN first ELSE FillDigit(f, i, n)]

\* digit strings without a leading zero, of one digit more than is read at most
CardinalDigitStrings ==
    {CardinalDigits(first, f, n) : first \in {"1", "2", "9"}, f \in CardinalFills,
                                   n \in 1..(CardinalMaxDigits + 1)}

RECURSIVE Grouped(_)
\* the digits in groups of three from the right, with a comma between groups
Grouped(d) ==
    IF Len(d) <= 3 THEN d
    ELSE Grouped(SubSeq(d, 1, Len(d) - 3)) \o <<",">> \o SubSeq(d, Len(d) - 2, Len(d))

StripCommas(d) == SelectSeq(d, LAMBDA c : c # ",")

IsCommaNumber(d) == (\E i \in 1..Len(d) : d[i] = ",") /\ \A i \in 1..Len(d) : IsDigit(d[i]) \/ d[i] = ","

OtherCardinalInputs ==
    {<<"0">>, <<"-", "5">>, <<"MA", "I", "NA", "SU", "1", ",", "5", "0", "0">>, <<"0", "7">>,
     <<"1", ",", "5", ",", "0", "0">>, <<",", "5">>, <<"1", ",", ",", "5">>, <<"1", "a">>, <<",">>}

CardinalInputs ==
    CardinalDigitStrings \cup {Grouped(d) : d \in CardinalDigitStrings} \cup OtherCardinalInputs

InitJaCardinal ==
    /\ text \in CardinalInputs
    /\ paths = {} /\ tagged = NoOutput /\ spoken = NoOutput /\ phase = "input"
    /\ handle = NoHandle /\ calls = NoCalls /\ cache = NoCache

JaCardinalClassify == phase = "input" /\ Classified(CardinalFst(text))

NextJaCardinal == JaCardinalClassify

SpecJaCardinal == InitJaCardinal /\ [][NextJaCardinal]_vars

IntegerTagged(r) == <<"cardinal", SP, "{", SP, "integer:", SP, Q>> \o r \o <<Q, SP, "}">>

-----------------------------------------------------------------------------
(* ja PreProcessorFst (ja/taggers/preprocessor.py) and the constructor of  *)
(* AddressNumberFst (ja/taggers/address_number.py).                        *)
(*   fw_space is the full-width space, fw_1 fw_2 fw_A full-width 1 2 A;    *)
(*   "<|space|>" is the space marker, one symbol.                          *)

SPACE_MARKER == "<|space|>"

NEMO_DIGIT == {DigitChar[i] : i \in 1..10}

\* no context: a rule that applies everywhere
AnyContext == {}

RECURSIVE cdrewrite_scan(_, _, _, _)
\* one obligatory left-to-right pass of a one-symbol rule: the left context is
\* read on the output side, the right context on the input side
cdrewrite_scan(s, i, out, rule) ==
    IF i > Len(s) THEN out
    ELSE LET leftok == rule.left = AnyContext \/ (out # <<>> /\ out[Len(out)] \in rule.left)
             rightok == rule.right = AnyContext \/ (i < Len(s) /\ s[i + 1] \in rule.right)
         IN  cdrewrite_scan(s, i + 1,
                            Append(out, IF s[i] = rule.from /\ leftok /\ rightok THEN rule.to ELSE s[i]),
                            rule)

\* pynini.cdrewrite(cross(from, to), left, right, NEMO_SIGMA)
cdrewrite(s, rule) == cdrewrite_scan(s, 1, <<>>, rule)

\* data/char/fullwidth_to_halfwidth.tsv, in file order
fullwidth_to_halfwidth_tsv == <<<<"fw_1", "1">>, <<"fw_2", "2">>, <<"fw_A", "A">>>>

RECURSIVE compose_rules(_, _)
\* rules[0] @ rules[1] @ ...: one cdrewrite per pair, applied in turn; no
\* pair is the identity cdrewrite("", "", "", NEMO_SIGMA)
compose_rules(s, pairs) ==
    IF pairs = <<>> THEN s
    ELSE compose_rules(cdrewrite(s, [from |-> Head(pairs)[1], to |-> Head(pairs)[2],
                                     left |-> AnyContext, right |-> AnyContext]), Tail(pairs))

\* a number space rule without the left context
number_space_rule_any_left(s) ==
    cdrewrite(s, [from |-> SP, to |-> "-", left |-> AnyContext, right |-> NEMO_DIGIT])

number_space_rule(s) == cdrewrite(s, [from |-> SP, to |-> "-", left |-> NEMO_DIGIT, right |-> NEMO_DIGIT])

other_space_rule(s) ==
    cdrewrite(s, [from |-> SP, to |-> SPACE_MARKER, left |-> AnyContext, right |-> AnyContext])

fullwidth_space_rule(s) ==
    cdrewrite(s, [from |-> "fw_space", to |-> SP, left |-> AnyContext, right |-> AnyContext])

\* the conditions the table files may be in when a constructor reads them
TableFiles == {"ok", "empty", "unreadable", "malformed"}

\* PreProcessorFst.__init__: the rules of the table, or the identity when
\* the flag is off, the table has no pair, or reading it raised
PreProcessorRules(fullwidth_to_halfwidth, file) ==
    IF fullwidth_to_halfwidth /\ file = "ok" THEN fullwidth_to_halfwidth_tsv ELSE <<>>

\* PreProcessorFst.fst applied to a text
PreProcessorFst(rules, s) == other_space_rule(number_space_rule(fullwidth_space_rule(compose_rules(s, rules))))

\* AddressNumberFst.__init__, the try / except around the number tables
AddressNumberTables(file) == IF file = "ok" THEN "file" ELSE "fallback"

(* the constructors and the preprocessing of one text *)

\* texts are drawn over this alphabet up to this length, and a few more
MaxPreLen == 5

PreAlphabet == {"1", SP, "A"}

PreInputs ==
    UNION {[1..n -> PreAlphabet] : n \in 0..MaxPreLen}
      \cup {<<"fw_1", SP, "fw_2">>, <<"1", "fw_space", "2">>, <<"A", "fw_space", "fw_A">>,
            <<"1", SP, "2", SP, "3">>, <<"fw_1", "fw_space", "2">>, <<"1", SP, "fw_2">>}

InitJaBuild ==
    /\ text = <<>> /\ paths = {} /\ tagged = NoOutput /\ spoken = NoOutput /\ phase = "input"
    /\ handle = [pre |-> NoHandle, addr |-> NoHandle]
    /\ calls = NoCalls /\ cache = NoCache

\* PreProcessorFst(fullwidth_to_halfwidth): every exception of the table
\* branch is caught, the constructor returns a grammar in every case
PreProcessorInit ==
    /\ handle.pre.state = "none"
    /\ \E flag \in BOOLEAN, file \in TableFiles :
          handle' = [handle EXCEPT !.pre = [state |-> "built", flag |-> flag, file |-> file,
                                            rules |-> PreProcessorRules(flag, file)]]
    /\ UNCHANGED <<text, paths, tagged, spoken, phase, calls, cache>>

\* AddressNumberFst(): an exception of string_file is caught and the
\* static fallback maps are used
AddressNumberInit ==
    /\ handle.addr.state = "none"
    /\ \E file \in TableFiles \ {"empty"} :
          handle' = [handle EXCEPT !.addr = [state |-> "built", file |-> file,
                                             tables |-> AddressNumberTables(file)]]
    /\ UNCHANGED <<text, paths, tagged, spoken, phase, calls, cache>>

\* the preprocessor applied to one text
PreProcess ==
    /\ handle.pre.state = "built"
    /\ calls = NoCalls
    /\ \E s \in PreInputs : calls' = <<[text |-> s, result |-> PreProcessorFst(handle.pre.rules, s)]>>
    /\ UNCHANGED <<text, paths, tagged, spoken, phase, handle, cache>>

NextJaBuild == PreProcessorInit \/ AddressNumberInit \/ PreProcess

SpecJaBuild == InitJaBuild /\ [][NextJaBuild]_vars

\* the text after the character conversions of a rule list: each symbol by
\* itself, and the full-width space as the space
ConvertedChar(rules, c) ==
    IF c = "fw_space" THEN SP
    ELSE IF \E k \in 1..Len(rules) : rules[k][1] = c
         THEN rules[CHOOSE k \in 1..Len(rules) : rules[k][1] = c][2]
         ELSE c

Converted(rules, s) == [i \in 1..Len(s) |-> ConvertedChar(rules, s[i])]

\* a space with a digit on both sides becomes "-", any other the marker
ExpectedSpaces(t) ==
    [i \in 1..Len(t) |->
        IF t[i] # SP THEN t[i]
        ELSE IF i > 1 /\ i < Len(t) /\ t[i - 1] \in NEMO_DIGIT /\ t[i + 1] \in NEMO_DIGIT THEN "-"
        ELSE SPACE_MARKER]

C17_BadTableIsFatal ==
    /\ (handle.pre.state # "none" /\ handle.pre.flag /\ handle.pre.file \in {"unreadable", "malformed"})
          => handle.pre.state = "raised"
    /\ (handle.addr.state # "none" /\ handle.addr.file \in {"unreadable", "malformed"})
          => handle.addr.state = "raised"

-----------------------------------------------------------------------------
(* ja VerbalizeFinalFst (ja/verbalizers/verbalize_final.py) over the class *)
(* verbalizers modelled above (ja/verbalizers/verbalize.py).               *)
(*   lkagi2 is 『, rkagi2 is 』                                              *)

\* tokenize_and_classify: token = insert("tokens { ") + classify + insert(" } ")
ja_token(out) == <<"tokens", SP, "{", SP>> \o out \o <<SP, "}", SP>>

\* the class verbalizers' fst, from a configuration on
ja_tel_v_fst(C, s) == delete_tokens_tail(ja_tel_v_graph(delete_tokens_head(C, s, "telephone"), s), s)
time_v_fst(C, s) == delete_tokens_tail(graph_basic_time(delete_tokens_head(C, s, "time"), s), s)
money_v_fst(C, s) == delete_tokens_tail(money_v_graph(delete_tokens_head(C, s, "money"), s), s)

\* VerbalizeFst.fst = closure(delete_space) + union(class verbalizers) + closure(delete_space)
verbalize_graph(C, s) ==
    LET d == delete_space(C, s)
    IN  delete_space(ja_tel_v_fst(d, s) \cup time_v_fst(d, s) \cup money_v_fst(d, s), s)

token_verbalizer(C, s) ==
    delete(delete_space(verbalize_graph(delete_space(delete(C, s, <<"tokens", SP, "{">>), s), s), s),
           s, <<SP, "}">>)

RECURSIVE verbalizer(_, _)
\* closure(delete_space + token_verbalizer + delete_space)
verbalizer(C, s) ==
    IF C = {} THEN C
    ELSE C \cup verbalizer(delete_space(token_verbalizer(delete_space(C, s), s), s), s)

\* PostProcessor(remove_puncts=False, to_upper=False, to_lower=False, tag_oov=False)
postprocessor(o) == o

space_marker_to_space(o) ==
    cdrewrite(o, [from |-> SPACE_MARKER, to |-> SP, left |-> AnyContext, right |-> AnyContext])

\* the outputs of compose(text, verbalizer @ postprocessor.fst @ space_marker_to_space)
VerbalizeFinalFst(s) == {space_marker_to_space(postprocessor(p.out)) : p \in Accepting(verbalizer(Start, s), s)}

\* compose(text, fst) for the value of the handle's field fst
ComposeFst(fst, s) == IF fst = "verbalize" THEN VerbalizeFinalFst(s) ELSE {}

\* try: result = compose(text, self.fst).string(); except Exception: pass
\* string() gives the one string of the composition and raises otherwise
normalize_compose(fst, s) ==
    LET P == ComposeFst(fst, s)
    IN  IF Cardinality(P) = 1 THEN CHOOSE o \in P : TRUE ELSE s

IsCapital(c) == c \in {"A", "B", "C", "D"}

RECURSIVE capital_pairs(_)
\* re.sub(r'([A-Z])([A-Z])', r'\1 \2', text): non-overlapping pairs, from the left
capital_pairs(t) ==
    IF Len(t) < 2 THEN t
    ELSE IF IsCapital(t[1]) /\ IsCapital(t[2]) THEN <<t[1], SP, t[2]>> \o capital_pairs(SubSeq(t, 3, Len(t)))
    ELSE <<t[1]>> \o capital_pairs(Tail(t))

RECURSIVE restore_spaces(_, _)
\* re.sub(r'『([^』]+)』', restore_spaces, result), from position i on
restore_spaces(s, i) ==
    IF i > Len(s) THEN <<>>
    ELSE IF s[i] = "lkagi2" /\ (\E j \in (i + 2)..Len(s) : s[j] = "rkagi2") /\ s[i + 1] # "rkagi2"
         THEN LET j == CHOOSE k \in (i + 2)..Len(s) :
                          s[k] = "rkagi2" /\ \A m \in (i + 2)..(k - 1) : s[m] # "rkagi2"
              IN  <<"lkagi2">> \o capital_pairs(SubSeq(s, i + 1, j - 1)) \o <<"rkagi2">>
                    \o restore_spaces(s, j + 1)
         ELSE <<s[i]>> \o restore_spaces(s, i + 1)

\* result.replace("<|space|>", " ")
replace_marker(s) == [i \in 1..Len(s) |-> IF s[i] = SPACE_MARKER THEN SP ELSE s[i]]

\* normalize writes no field of self: the handle after a step of a call
self_after_writing_fst(h) == [h EXCEPT !.fst = "written"]

self_after(h) == h

\* VerbalizeFinalFst.normalize, run from start to end on its own
normalize(fst, s) == replace_marker(restore_spaces(normalize_compose(fst, s), 1))

(* concurrent normalize calls on one handle *)

NumCalls == 2

MobileTagged == CHOOSE p \in JaTelephoneFst(JaMobileText(9, <<1, 2, 3, 4>>, <<5, 6, 7, 8>>)) : TRUE
TimeTagged == CHOOSE p \in TimeFst(<<"3", "ji_hour", "0", "7", "fen">>) : TRUE
DecimalMoneyTagged == CHOOSE p \in MoneyFst(<<"$", "1", ".", "5">>) : TRUE

NormalizeInputs ==
    {ja_token(MobileTagged.out),
     ja_token(TimeTagged.out) \o ja_token(MobileTagged.out),
     ja_token(DecimalMoneyTagged.out),
     <<"A", SPACE_MARKER, "B">>,
     <<"lkagi2", "A", "B", "C", "rkagi2">>,
     <<"a", "b">>,
     <<>>}

InitJaNormalize ==
    /\ text = <<>> /\ paths = {} /\ tagged = NoOutput /\ spoken = NoOutput /\ phase = "input"
    /\ handle = [state |-> "built", fst |-> "verbalize"]
    /\ calls \in [1..NumCalls -> [pc : {"start"}, text : NormalizeInputs, result : {NoOutput}]]
    /\ cache = NoCache

\* result = text
NormalizeStart(k) ==
    /\ calls[k].pc = "start"
    /\ calls' = [calls EXCEPT ![k].pc = "compose", ![k].result = calls[k].text]
    /\ handle' = self_after(handle)
    /\ UNCHANGED <<text, paths, tagged, spoken, phase, cache>>

\* the try block: self.fst is read here
NormalizeCompose(k) ==
    /\ calls[k].pc = "compose"
    /\ calls' = [calls EXCEPT ![k].pc = "restore", ![k].result = normalize_compose(handle.fst, calls[k].text)]
    /\ handle' = self_after(handle)
    /\ UNCHANGED <<text, paths, tagged, spoken, phase, cache>>

NormalizeRestore(k) ==
    /\ calls[k].pc = "restore"
    /\ calls' = [calls EXCEPT ![k].pc = "replace", ![k].result = restore_spaces(calls[k].result, 1)]
    /\ handle' = self_after(handle)
    /\ UNCHANGED <<text, paths, tagged, spoken, phase, cache>>

\* the last statement and the return
NormalizeReplace(k) ==
    /\ calls[k].pc = "replace"
    /\ calls' = [calls EXCEPT ![k].pc = "done", ![k].result = replace_marker(calls[k].result)]
    /\ handle' = self_after(handle)
    /\ UNCHANGED <<text, paths, tagged, spoken, phase, cache>>

NextJaNormalize ==
    \/ \E k \in 1..NumCalls : NormalizeStart(k)
    \/ \E k \in 1..NumCalls : NormalizeCompose(k)
    \/ \E k \in 1..NumCalls : NormalizeRestore(k)
    \/ \E k \in 1..NumCalls : NormalizeReplace(k)

SpecJaNormalize == InitJaNormalize /\ [][NextJaNormalize]_vars

\* C18: no call of normalize raises, and a call whose text has no accepting
\* path through the verbalizer returns its text unchanged.
C18_FallthroughReturnsInput ==
    \A k \in 1..NumCalls :
        /\ calls[k].pc \in {"start", "compose", "restore", "replace", "done"}
        /\ (calls[k].pc = "done" /\ ComposeFst(handle.fst, calls[k].text) = {})
              => calls[k].result = calls[k].text

\* C19: the handle is the one that was constructed whatever calls have run,
\* and every call that has returned returned what normalize returns for its
\* text when it runs alone.
C19_CallsDoNotInterfere ==
    /\ handle = [state |-> "built", fst |-> "verbalize"]
    /\ \A k \in 1..NumCalls :
          calls[k].pc = "done" => calls[k].result = normalize("verbalize", calls[k].text)

\* two calls are in flight at different steps, the first past the read of
\* self.fst with the reading of a mobile number as its result
C19_Witness ==
    /\ calls[1].pc = "restore" /\ calls[2].pc = "compose"
    /\ calls[1].text = ja_token(MobileTagged.out)
    /\ calls[1].result = KanaDigits(<<0, 9, 0>>) \o <<"dun">> \o <<"I", "CHI", "nakaten", "NI", "LONG",
           "nakaten", "SA", "N", "nakaten", "YO", "N", "dun", "GO", "nakaten", "RO", "KU", "nakaten",
           "NA", "NA", "nakaten", "HA", "CHI">>

-----------------------------------------------------------------------------
(* The form of a tagged string                                             *)

Structural == {SP, Q, "{", "}"}

RECURSIVE IsFields(_)
\* field: "value"( field: "value")*
IsFields(f) ==
    /\ Len(f) >= 4
    /\ f[1] \notin Structural /\ f[2] = SP /\ f[3] = Q
    /\ \E j \in 4..Len(f) :
          /\ f[j] = Q
          /\ \A m \in 4..(j - 1) : f[m] # Q
          /\ \/ j = Len(f)
             \/ j + 1 < Len(f) /\ f[j + 1] = SP /\ IsFields(SubSeq(f, j + 2, Len(f)))

\* class { field: "value"( field: "value")* }
IsClassForm(s) ==
    /\ Len(s) >= 6
    /\ s[1] \notin Structural /\ s[2] = SP /\ s[3] = "{" /\ s[4] = SP
    /\ s[Len(s) - 1] = SP /\ s[Len(s)] = "}"
    /\ IsFields(SubSeq(s, 5, Len(s) - 2))

\* the field names of a tagged string, in the order they stand in it
FieldNames(s) ==
    SelectSeq(s, LAMBDA c : c \in {"suffix:", "hours:", "minutes:", "seconds:"})

TimeFieldRank(c) ==
    CASE c = "suffix:" -> 1 [] c = "hours:" -> 2 [] c = "minutes:" -> 3 [] OTHER -> 4

\* C20: every tagged string the time tagger emits has the form
\* time { field: "value"( field: "value")* } with single blanks (none leading,
\* trailing or doubled outside the quotes), and its fields stand in the one
\* order suffix, hours, minutes, seconds.
C20_TaggedFormExact ==
    \A p \in paths :
        /\ IsClassForm(p.out)
        /\ \A i \in 1..(Len(FieldNames(p.out)) - 1) :
              TimeFieldRank(FieldNames(p.out)[i]) < TimeFieldRank(FieldNames(p.out)[i + 1])

-----------------------------------------------------------------------------
(* Path weights                                                            *)

\* C21: every accepting path of the fraction tagger has a total weight >= 0
C21_PathWeightsNonNegative == \A p \in paths : p.w >= 0

SignChars == {"-", "fu_neg", "fu_neg_t"}

\* the accepting paths of the signed branch for the text
SignedBranchPaths == Accepting(graph_with_sign(Start, text), text)

\* C29: once the fraction tagger has run on a text that does not begin with
\* a sign character, the signed branch graph_with_sign has no accepting path
\* for it and the minimum path weight is that of the unsigned branch
C29_SignedBranchNeedsSign ==
    (phase \in {"tagged", "verbalized", "unverbalized"} /\ text[1] \notin SignChars)
        => /\ SignedBranchPaths = {}
           /\ \A p \in MinPaths(paths) :
                 \E q \in Accepting(fraction_graph(Start, text), text) : q.w = p.w

-----------------------------------------------------------------------------
(* Determinism of the taggers                                              *)

\* the tagged strings of minimum weight
MinTaggings == {p.out : p \in MinPaths(paths)}

\* C22: for every input a class tagger accepts, exactly one tagged string
\* has the minimum weight
C22_SingleMinimalTagging == phase = "tagged" => Cardinality(MinTaggings) = 1

-----------------------------------------------------------------------------
(* ASCII digits in the spoken form                                         *)

AsciiDigits == {"0", "1", "2", "3", "4", "5", "6", "7", "8", "9"}

\* C23: the spoken form of a fraction token contains no ASCII digit
C23_NoAsciiDigitSpoken ==
    phase = "verbalized" => \A i \in 1..Len(spoken) : spoken[i] \notin AsciiDigits

-----------------------------------------------------------------------------
(* The cached constructors of the ja pipeline: ClassifyFst.__init__        *)
(* (taggers/tokenize_and_classify.py) and VerbalizeFinalFst.__init__       *)
(* (verbalizers/verbalize_final.py)                                        *)

PyNone == "py_None"

\* cache_dir: None, the string "None", or a directory
CacheDirs == {PyNone, "None", "cache"}

\* the .far file of each constructor
TokenizeFar == "ja_tn_tokenize.far"
VerbalizerFar == "jp_tn_verbalizer.far"

\* a .far file is absent, holds the grammar, or is present but unreadable
FarStates == {"absent", "ok", "unreadable"}

\* far_file = None; if cache_dir is not None and cache_dir != "None": far_file = join(cache_dir, ...)
far_file(cache_dir, name) == IF cache_dir # PyNone /\ cache_dir # "None" THEN name ELSE PyNone

\* what the constructor finds at far_file
found_at(f) == IF f = PyNone THEN "unused" ELSE cache[f]

\* if not overwrite_cache and far_file and os.path.exists(far_file)
reads_far(overwrite_cache, f) == ~overwrite_cache /\ f # PyNone /\ cache[f] # "absent"

\* pynini.Far(far_file, mode="r")[key]: the grammar of a readable file, an
\* exception otherwise; no handler surrounds the read
far_read(f, cache_dir, overwrite_cache) ==
    IF cache[f] = "ok"
    THEN [state |-> "built", fst |-> "far", cache_dir |-> cache_dir,
          overwrite_cache |-> overwrite_cache, found |-> cache[f]]
    ELSE [state |-> "raised", fst |-> "none", cache_dir |-> cache_dir,
          overwrite_cache |-> overwrite_cache, found |-> cache[f]]

\* the else branch: the grammar is compiled
compiled(f, cache_dir, overwrite_cache) ==
    [state |-> "built", fst |-> "compiled", cache_dir |-> cache_dir,
     overwrite_cache |-> overwrite_cache, found |-> found_at(f)]

\* if far_file: generator_main(far_file, {key: self.fst})
generator_main(f) == IF f # PyNone THEN [cache EXCEPT ![f] = "ok"] ELSE cache

CachedInit(kind, name, cache_dir, overwrite_cache) ==
    LET f == far_file(cache_dir, name)
    IN  IF reads_far(overwrite_cache, f)
        THEN /\ handle' = [handle EXCEPT ![kind] = far_read(f, cache_dir, overwrite_cache)]
             /\ cache' = cache
        ELSE /\ handle' = [handle EXCEPT ![kind] = compiled(f, cache_dir, overwrite_cache)]
             /\ cache' = generator_main(f)

InitJaCache ==
    /\ text = <<>> /\ paths = {} /\ tagged = NoOutput /\ spoken = NoOutput /\ phase = "input"
    /\ handle = [classify |-> NoHandle, verbalize |-> NoHandle]
    /\ calls = NoCalls
    /\ cache \in [{TokenizeFar, VerbalizerFar} -> FarStates]

\* ClassifyFst(input_case, deterministic, cache_dir, overwrite_cache, whitelist)
ClassifyFstInit ==
    /\ handle.classify.state = "none"
    /\ \E cache_dir \in CacheDirs, overwrite_cache \in BOOLEAN :
          CachedInit("classify", TokenizeFar, cache_dir, overwrite_cache)
    /\ UNCHANGED <<text, paths, tagged, spoken, phase, calls>>

\* VerbalizeFinalFst(deterministic, cache_dir, overwrite_cache)
VerbalizeFinalFstInit ==
    /\ handle.verbalize.state = "none"
    /\ \E cache_dir \in CacheDirs, overwrite_cache \in BOOLEAN :
          CachedInit("verbalize", VerbalizerFar, cache_dir, overwrite_cache)
    /\ UNCHANGED <<text, paths, tagged, spoken, phase, calls>>

NextJaCache == ClassifyFstInit \/ VerbalizeFinalFstInit

SpecJaCache == InitJaCache /\ [][NextJaCache]_vars

\* the .far file of a constructor
FarOf(kind) == IF kind = "classify" THEN TokenizeFar ELSE VerbalizerFar

\* C24: a constructor that found its cache file present but unreadable has
\* returned a grammar built from scratch and left a readable cache file; it
\* did not raise
C24_UnreadableCacheRecovered ==
    \A kind \in {"classify", "verbalize"} :
        (handle[kind].state # "none" /\ handle[kind].found = "unreadable")
            => /\ handle[kind].state = "built" /\ handle[kind].fst = "compiled"
               /\ cache[FarOf(kind)] = "ok"

-----------------------------------------------------------------------------
(* Separators of the zh telephone tagger                                   *)

\* the readings a consumed separator may leave: the input characters
\* separator_delete takes, and the word it crosses the hyphen to
SeparatorReadings == {"-", ".", "(", ")", "gang"}

\* C25: in every accepted telephone format the separators of the input are
\* deleted: no minimum-weight tagging holds a separator character or a
\* reading of one, and neither does the spoken form
C25_SeparatorsLeaveNoSymbol ==
    /\ \A p \in MinPaths(paths) : \A i \in 1..Len(p.out) : p.out[i] \notin SeparatorReadings
    /\ \A i \in 1..Len(spoken) : spoken[i] \notin SeparatorReadings

-----------------------------------------------------------------------------
(* Separator-delimited dates of the zh date tagger                         *)

\* day values are drawn from 0..MaxDay, on both sides of the limit 31
MaxDay == 34

DateSeparators == {"/", "-", ".", "middot"}

SepYears == {<<"2", "0", "0", "2">>, <<"9", "8">>}
SepMonths == {<<"1">>, <<"0", "2">>, <<"1", "2">>}
SepDays == {Numeral(i) : i \in 0..MaxDay} \cup {Numeral02(i) : i \in 0..MaxDay}
             \cup {<<"1", "0", "0">>, <<"0", "3", "1">>, <<"3", "1", "1">>}

\* the day numerals of 1..31, with or without a leading zero
DaysInRange == {Numeral(i) : i \in 1..31} \cup {Numeral02(i) : i \in 1..31}

SepDateText(y, s1, m, s2, d) == y \o <<s1>> \o m \o <<s2>> \o d

TwoPartText(a, s1, b) == a \o <<s1>> \o b

FullSepDates ==
    {SepDateText(y, s1, m, s2, d) : y \in SepYears, s1 \in DateSeparators, m \in SepMonths,
                                    s2 \in DateSeparators, d \in SepDays}

\* YYYY/MM and MM/DD
TwoPartDates ==
    {TwoPartText(a, s1, b) : a \in SepYears \cup SepMonths, s1 \in DateSeparators,
                             b \in SepMonths \cup {<<"1", "1">>, <<"2", "8">>}}

SepDateInputs == FullSepDates \cup TwoPartDates

InitZhSepDate ==
    /\ text \in SepDateInputs
    /\ paths = {} /\ tagged = NoOutput /\ spoken = NoOutput /\ phase = "input"
    /\ handle = NoHandle /\ calls = NoCalls /\ cache = NoCache

SpecZhSepDate == InitZhSepDate /\ [][NextZhDate]_vars

\* C28: the date tagger rejects every two-component separator form, and a
\* three-component form it accepts has its day in 1..31 (with or without a
\* leading zero); every day of 0 or of 32 and more is rejected
C28_SeparatorDateNeedsAllThree ==
    phase = "tagged" =>
        /\ text \notin TwoPartDates
        /\ \A y \in SepYears, m \in SepMonths, d \in SepDays, s1 \in DateSeparators, s2 \in DateSeparators :
              text = SepDateText(y, s1, m, s2, d) => d \in DaysInRange

\* 2002/1/31 is tagged with the day read 三十一
C28_Witness ==
    /\ text = <<"2", "0", "0", "2", "/", "1", "/", "3", "1">>
    /\ phase = "tagged"
    /\ tagged = <<"date", SP, "{", SP, "year:", SP, Q, "er", "ling", "ling", "er", Q, SP,
                  "month:", SP, Q, "yi", Q, SP, "day:", SP, Q, "san", "shi", "yi", Q, SP, "}">>

-----------------------------------------------------------------------------
(* Capital letters inside the quotes after normalize                       *)

\* positions i and i + 1 of s stand inside one quoted span
InsideQuotes(s, i) ==
    \E l \in 1..(i - 1), r \in (i + 2)..Len(s) :
        /\ s[l] = "lkagi2" /\ s[r] = "rkagi2"
        /\ \A m \in (l + 1)..(r - 1) : s[m] \notin {"lkagi2", "rkagi2"}

\* C27: in the result of every normalize call that has returned, no two
\* capital letters stand next to each other inside a quoted span
C27_NoAdjacentCapitalsInQuotes ==
    \A k \in 1..NumCalls :
        calls[k].pc = "done" =>
            \A i \in 1..(Len(calls[k].result) - 1) :
                (IsCapital(calls[k].result[i]) /\ IsCapital(calls[k].result[i + 1]))
                    => ~InsideQuotes(calls[k].result, i)

-----------------------------------------------------------------------------
(* ja CreditCardFst (ja/taggers/credit_card.py) and its verbalizer         *)
(* (ja/verbalizers/credit_card.py)                                         *)

\* digit + digit + digit + digit over the tagger's tts_digit_map
credit_card_digits(C, s) == closure_map(C, s, tts_digit_map, 4, 4)

\* separator = delete("-") | delete(" ")
credit_card_separator(C, s) == delete(C, s, <<"-">>) \cup delete(C, s, <<SP>>)

\* segment_separator = insert("の")
credit_card_segment_separator(C) == insert(C, <<"no">>)

\* group, then three times separator, inserted の and group
credit_card_next_group(C, s) ==
    credit_card_digits(credit_card_segment_separator(credit_card_separator(C, s)), s)

credit_card_number_part(C, s) ==
    credit_card_next_group(credit_card_next_group(credit_card_next_group(credit_card_digits(C, s), s), s), s)

credit_card_final_graph(C, s) ==
    insert(credit_card_number_part(insert(C, <<"number_part:", SP, Q>>), s), <<Q>>)

CreditCardFst(s) == add_tokens(Accepting(credit_card_final_graph(Start, s), s), "credit_card")

\* delete("number_part: \"") + closure(NEMO_NOT_QUOTE, 1) + delete("\"")
credit_card_v_number_part(C, s) ==
    delete(closure_not_quote(delete(C, s, <<"number_part:", SP, Q>>), s, 1), s, <<Q>>)

CreditCardVerbalizer(s) ==
    Accepting(delete_tokens_tail(credit_card_v_number_part(delete_tokens_head(Start, s, "credit_card"), s), s), s)

(* ja SerialNumberFst (ja/taggers/serial_number.py)                        *)
(* hiragana is written in small letters, one symbol a kana: i_h chi_h いち  *)

serial_digit_map ==
    {<<<<"0">>, <<"ZE", "RO">>>>, <<<<"1">>, <<"i_h", "chi_h">>>>, <<<<"2">>, <<"ni_h">>>>,
     <<<<"3">>, <<"sa_h", "n_h">>>>, <<<<"4">>, <<"yo_h", "n_h">>>>, <<<<"5">>, <<"go_h">>>>,
     <<<<"6">>, <<"ro_h", "ku_h">>>>, <<<<"7">>, <<"na_h", "na_h">>>>, <<<<"8">>, <<"ha_h", "chi_h">>>>,
     <<<<"9">>, <<"ki_h", "yu_h", "u_h">>>>}

\* the letters of letters_str that texts of the model hold
serial_letters == {<<<<c>>, <<c>>>> : c \in {"A", "B", "C", "D", "a", "b"}}

hyphen_fst == {<<<<"-">>, <<"no">>>>}

char_fst == serial_letters \cup serial_digit_map \cup hyphen_fst

\* insert('value: "') + closure(char_fst, 1) + insert('"')
final_graph_value(C, s) ==
    insert(closure_map(insert(C, <<"value:", SP, Q>>), s, char_fst, 1, Len(s)), <<Q>>)

SerialNumberFst(s) == add_tokens(Accepting(final_graph_value(Start, s), s), "serial_number")

(* ja ClassifyFst (ja/taggers/tokenize_and_classify.py)                    *)

\* pynutil.add_weight(class.fst, x) on the accepting paths of a class
add_class_weight(P, x) == {[out |-> p.out, w |-> p.w + x] : p \in P}

\* the members of the union that read a text of digits and hyphens and
\* whose source is at hand, with the weights of the source; money (0.8) and
\* time (1.1) need a currency or a time word, and date, fraction, whitelist,
\* decimal, ordinal, punctuation and word are further members of the union
classify(s) ==
    add_class_weight(CardinalFst(s), 9000)
      \cup add_class_weight(AddressNumberFst(s), 11000)
      \cup add_class_weight(JaTelephoneFst(s), 12000)
      \cup add_class_weight(CreditCardFst(s), 12000)
      \cup add_class_weight(SerialNumberFst(s), 15000)

\* token = insert("tokens { ") + classify + insert(" } ")
token(s) == {[out |-> ja_token(p.out), w |-> p.w] : p \in classify(s)}

\* token | cross(NEMO_SPACE, NEMO_SPACE)
token_or_space(s) == token(s) \cup (IF s = <<SP>> THEN {[out |-> <<SP>>, w |-> 0]} ELSE {})

\* the longest sequence of tokens and spaces a text is split into
MaxTokens == 1

RECURSIVE tagger(_, _)
\* closure(token | cross(NEMO_SPACE, NEMO_SPACE), 1), over at most n members:
\* one member, or a first member and then at most n - 1 more
tagger(s, n) ==
    IF n = 0 \/ s = <<>> THEN {}
    ELSE IF n = 1 THEN token_or_space(s)
    ELSE token_or_space(s)
           \cup UNION {{[out |-> p.out \o q.out, w |-> p.w + q.w] :
                           p \in token_or_space(SubSeq(s, 1, k)), q \in tagger(SubSeq(s, k + 1, Len(s)), n - 1)} :
                       k \in 1..(Len(s) - 1)}

\* self.fst = compose(preprocessor.fst, tagger)
ClassifyFst(s) == tagger(PreProcessorFst(PreProcessorRules(TRUE, "ok"), s), MaxTokens)

(* card numbers given to the classifier *)

CardGroups == {<<4, 3, 2, 1>>, <<2, 1, 0, 9>>, <<0, 0, 1, 2>>}

\* the groups of the last two positions
LastCardGroups == {<<2, 1, 0, 9>>, <<6, 5, 4, 3>>}

CardNumbers == {<<a, b, c, d>> : a \in CardGroups, b \in CardGroups, c \in LastCardGroups, d \in LastCardGroups}

\* XXXX-XXXX-XXXX-XXXX
HyphenCard(x) ==
    DigitText(x[1]) \o <<"-">> \o DigitText(x[2]) \o <<"-">> \o DigitText(x[3]) \o <<"-">> \o DigitText(x[4])

\* XXXXXXXXXXXXXXXX
ContiguousCard(x) == DigitText(x[1]) \o DigitText(x[2]) \o DigitText(x[3]) \o DigitText(x[4])

CardInputs == {HyphenCard(x) : x \in CardNumbers} \cup {ContiguousCard(x) : x \in CardNumbers}

InitJaClassify ==
    /\ text \in CardInputs
    /\ paths = {} /\ tagged = NoOutput /\ spoken = NoOutput /\ phase = "input"
    /\ handle = NoHandle /\ calls = NoCalls /\ cache = NoCache

JaClassify == phase = "input" /\ Classified(ClassifyFst(text))

NextJaClassify == JaClassify

SpecJaClassify == InitJaClassify /\ [][NextJaClassify]_vars

\* the reading of a card number: the digits of each group, の between the groups
CardReading(x) ==
    KanaDigits(x[1]) \o <<"no">> \o KanaDigits(x[2]) \o <<"no">> \o KanaDigits(x[3])
      \o <<"no">> \o KanaDigits(x[4])

CreditCardTagged(x) == <<"credit_card", SP, "{", SP, "number_part:", SP, Q>> \o CardReading(x) \o <<Q, SP, "}">>

\* C26: every 16-digit card number, hyphenated or contiguous, is tagged by
\* the classifier as one credit_card token with the same number_part
C26_CardNumbersTaggedCreditCard ==
    \A x \in CardNumbers :
        (phase # "input" /\ text \in {HyphenCard(x), ContiguousCard(x)})
            => /\ phase = "tagged"
               /\ \A p \in MinPaths(paths) : p.out = ja_token(CreditCardTagged(x))

-----------------------------------------------------------------------------
(* The inverse-normalization ja CreditCardFst                              *)
(* (inverse_text_normalization/ja/taggers/credit_card.py) and its          *)
(* verbalizer (inverse_text_normalization/ja/verbalizers/credit_card.py)   *)

\* tts_digit_map of the inverse tagger: reading to digit
itn_tts_digit_map == {<<TtsReading[i + 1], <<DigitChar[i + 1]>>>> : i \in 0..9}

\* digit + digit + digit + digit
itn_digits(C, s) == closure_map(C, s, itn_tts_digit_map, 4, 4)

\* a separator that writes a blank for の
itn_separator_blank(C, s) == insert(delete(C, s, <<"no">>), <<SP>>)

\* separator = delete("の") + insert("-")
itn_separator(C, s) == insert(delete(C, s, <<"no">>), <<"-">>)

itn_number_part(C, s) ==
    itn_digits(itn_separator(itn_digits(itn_separator(itn_digits(itn_separator(itn_digits(C, s), s), s), s), s), s), s)

itn_final_graph(C, s) == insert(itn_number_part(insert(C, <<"number_part:", SP, Q>>), s), <<Q>>)

ItnCreditCardFst(s) == add_tokens(Accepting(itn_final_graph(Start, s), s), "credit_card")

\* delete("number_part: \"") + closure(NEMO_NOT_QUOTE, 1) + delete("\"")
itn_credit_card_v_graph(s) ==
    Accepting(delete_tokens_tail(credit_card_v_number_part(delete_tokens_head(Start, s, "credit_card"), s), s), s)

\* the number_part values of a set of tagged paths
ItnNumberParts(P) == UNION {{q.out : q \in itn_credit_card_v_graph(p.out)} : p \in P}

(* the round trip of a card number *)

\* groups that hold every digit, and ゴ before ロク
RoundTripGroups == {<<4, 3, 2, 1>>, <<8, 7, 6, 5>>, <<2, 1, 0, 9>>, <<5, 6, 5, 6>>}

RoundTripInputs == {HyphenCard(x) : x \in Seqs(RoundTripGroups, 4)}

InitJaCardRoundTrip ==
    /\ text \in RoundTripInputs
    /\ paths = {} /\ tagged = NoOutput /\ spoken = NoOutput /\ phase = "input"
    /\ handle = NoHandle /\ calls = NoCalls /\ cache = NoCache

JaCardClassify == phase = "input" /\ Classified(CreditCardFst(text))

JaCardVerbalize == phase = "tagged" /\ Verbalized(CreditCardVerbalizer(tagged))

\* the inverse tagger applied to the reading
JaCardInverse ==
    /\ phase = "verbalized" /\ calls = NoCalls
    /\ calls' = <<[text |-> spoken, paths |-> ItnCreditCardFst(spoken),
                   number_parts |-> ItnNumberParts(ItnCreditCardFst(spoken))]>>
    /\ UNCHANGED <<text, paths, tagged, spoken, phase, handle, cache>>

NextJaCardRoundTrip == JaCardClassify \/ JaCardVerbalize \/ JaCardInverse

SpecJaCardRoundTrip == InitJaCardRoundTrip /\ [][NextJaCardRoundTrip]_vars

\* C30: the reading the text-normalization tagger gives a card number
\* XXXX-XXXX-XXXX-XXXX is read back by the inverse tagger along exactly one
\* path, whose number_part is the card number
C30_CardRoundTrip ==
    /\ phase \notin {"rejected", "unverbalized"}
    /\ calls # NoCalls =>
          /\ Cardinality(calls[1].paths) = 1
          /\ calls[1].number_parts = {text}

\* the reading of 5656-2109-8765-4321 has been read back
C30_Witness ==
    /\ calls # NoCalls
    /\ text = HyphenCard(<<<<5, 6, 5, 6>>, <<2, 1, 0, 9>>, <<8, 7, 6, 5>>, <<4, 3, 2, 1>>>>)
    /\ spoken = CardReading(<<<<5, 6, 5, 6>>, <<2, 1, 0, 9>>, <<8, 7, 6, 5>>, <<4, 3, 2, 1>>>>)
    /\ calls[1].number_parts = {text}

====
